---- MODULE Spec2Model ----
(***************************************************************************)
(* Risk scoring of the hot-choco dashboard: the risk scorer                *)
(* (calculateRiskScore / getRiskLevel and the modal's three sub-score      *)
(* helpers), feature grouping, and the RiskOverview orchestrator           *)
(* (calculateFeatureRiskData) with its two providers.                      *)
(*                                                                         *)
(* Scores are kept in hundredths: the code's 0.50, 0.40 and 0.10 weights   *)
(* are 50, 40 and 10, and the thresholds 20 and 40 are 2000 and 4000.      *)
(* Every product the code forms (n * 0.5, {0,10,20,30} * 0.4,              *)
(* {0,5,10,15} * 0.1) and every sum of them is exact in IEEE doubles, so   *)
(* the scaled integers are the code's values.                              *)
(***************************************************************************)
EXTENDS Integers, Sequences, FiniteSets, TLC

\* ---------------------------------------------------------------- bounds
\* longest arbitrary prefix of a generated bug list
MaxPrefix == 1
\* longest run of equal-severity bugs appended to the prefix (10 reaches the volume cap)
MaxRepeat == 10
\* largest test count handed to the scorer (11 reaches the last coverage step)
MaxTests == 11
\* largest screen count handed to the scorer (5 reaches the last complexity step)
MaxScreens == 5
\* largest score, in hundredths, handed to getRiskLevel on its own
MaxScore == 4200
\* longest node list handed to feature grouping on its own
MaxGroupNodes == 2
\* longest node list handed to RiskOverview
MaxNodes == 3
\* most calculateFeatureRiskData calls of one RiskOverview (mount plus node changes)
MaxRuns == 2
\* longest node list of a RiskOverview whose nodes prop changes
MaxRerunNodes == 1
\* test cases behind a TestStats handed to the test-count harness
MaxStatTotal == 12
\* effect runs of one useQualityMetrics hook
MaxFetches == 3
\* screens of a run that is followed to its end
MaxLiveNodes == 2
MaxStoreRows == 2
MaxBugLoads == 2
MaxBulkFeatures == 2
MaxPageNodes == 2

\* ---------------------------------------------------------------- state
VARIABLES
    openBugsArg,     \* scorer harness: the openBugs argument
    testCountArg,    \* scorer harness: the testCount argument
    screenCountArg,  \* scorer harness: the screenCount argument
    riskScoreArg,    \* classifier harness: the riskScore argument (hundredths)
    called,          \* harness: whether the functions have been applied
    listScore,       \* RiskOverview.calculateRiskScore's result
    pageScore,       \* graph page calculateRiskScore's result
    modalParts,      \* the modal's three raw sub-scores
    levels,          \* the three getRiskLevel copies' results
    nodes,           \* RiskOverview's nodes prop (a list of FlowNodeData)
    featureMap,      \* grouping harness: the Map built by the forEach
    featureRiskData, \* RiskOverview state: the stored feature list
    loading,         \* RiskOverview state
    error,           \* RiskOverview state ("null" or the message)
    runs,            \* every calculateFeatureRiskData call so far, with its locals
    net,             \* environment: "up", "flaky" or "down"
    bugService,      \* which SupabaseService implementation is injected
    testService,     \* which AllureService implementation is injected
    isOpen,          \* UnifiedDetailsModal prop
    nodeData,        \* UnifiedDetailsModal prop (Undefined or Some(screen))
    featureData,     \* UnifiedDetailsModal prop (Undefined or Some(feature))
    modalPc,         \* the await loadDetailedData is suspended at
    modalLoading,    \* UnifiedDetailsModal state: loading
    bugs,            \* UnifiedDetailsModal state
    docs,            \* UnifiedDetailsModal state
    testCoverage,    \* UnifiedDetailsModal state
    testStats,       \* UnifiedDetailsModal state
    testCases,       \* UnifiedDetailsModal state
    hasErrors,       \* UnifiedDetailsModal state
    fetchFailed,     \* history: the awaits of this load that failed
    rowArg,          \* normalization harness: the SupabaseRow argument
    bugReport,       \* normalization harness: convertRowToBugReport's result
    statsArg,        \* test-count harness: the TestStats | null the provider returned
    testCounts,      \* test-count harness: the testCount and score of both call sites
    hookProps,       \* useQualityMetrics arguments (product, section, feature)
    hookPhase,       \* the component using the hook: "initial", "mounted", "unmounted"
    metrics,         \* useQualityMetrics state (Undefined is null)
    hookLoading,     \* useQualityMetrics state: loading
    hookError,       \* useQualityMetrics state: error ("null" or the message)
    fetches,         \* every effect run so far: its arguments, its mounted flag, its fetch
    staleWrite,      \* history: a superseded effect run has written the state
    breakdown,       \* UnifiedDetailsModal: the numbers of the risk calculation breakdown
    bugCountArg,     \* argument of QualityServiceImpl.calculateRiskLevel
    qualityLevel,    \* its result beside the level of the composite score
    storeArg,        \* the bug rows both SupabaseService implementations hold
    queryArg,        \* arguments of getBugReportsByStatus
    realAnswer,      \* what RealSupabaseService.getBugReportsByStatus resolves to
    mockAnswer,      \* what MockSupabaseService.getBugReportsByStatus resolves to
    selectedNode,    \* GraphPage state: the node the details panel is given
    showBugDetails,  \* NodeDetailsPanel state
    panelOpenBugs,   \* NodeDetailsPanel state: openBugs
    panelClosedBugs, \* NodeDetailsPanel state: closedBugs
    loadingBugs,     \* NodeDetailsPanel state
    bugLoads,        \* every loadBugDetails call so far: its node, and whether it is pending
    bugsFetchedFor,  \* history: the node the lists in the panel state were fetched for
    bulkFeatures,    \* useBulkQualityMetrics argument: features
    bulkPhase,       \* "initial", "mounted" or "unmounted"
    bulkMetrics,     \* useBulkQualityMetrics state: metrics
    bulkLoading,     \* useBulkQualityMetrics state: loading
    bulkError,       \* useBulkQualityMetrics state: error ("null" or the message)
    bulkFetch,       \* the effect's fetch: "none", "inflight" or "settled", and its mounted flag
    flowJson,        \* what /flow.json holds: nodes and edges
    pagePc,          \* GraphPage.loadFlowData: "fetch", "risk", "loaded" or "error"
    nodeTasks,       \* calculateDynamicRiskLevels: one map callback per node
    flowData,        \* GraphPage state: flowData (Undefined is null)
    filters,         \* GraphPage state: filters
    rfNodes,         \* React Flow state: the displayed nodes
    rfEdges          \* React Flow state: the displayed edges

scorerVars == <<openBugsArg, testCountArg, screenCountArg, riskScoreArg,
                listScore, pageScore, modalParts, levels>>

overviewVars == <<nodes, featureMap, featureRiskData, loading, error, runs, net,
                  bugService, testService>>

modalVars == <<isOpen, nodeData, featureData, modalPc, modalLoading, bugs, docs,
               testCoverage, testStats, testCases, hasErrors, fetchFailed>>

unitVars == <<rowArg, bugReport, statsArg, testCounts>>

hookVars == <<hookProps, hookPhase, metrics, hookLoading, hookError, fetches,
              staleWrite>>

displayVars == <<breakdown, bugCountArg, qualityLevel>>

compareVars == <<storeArg, queryArg, realAnswer, mockAnswer>>

panelVars == <<selectedNode, showBugDetails, panelOpenBugs, panelClosedBugs,
               loadingBugs, bugLoads, bugsFetchedFor>>

bulkVars == <<bulkFeatures, bulkPhase, bulkMetrics, bulkLoading, bulkError, bulkFetch>>

pageVars == <<flowJson, pagePc, nodeTasks, flowData, filters, rfNodes, rfEdges>>

restVars == <<compareVars, panelVars, bulkVars, pageVars>>

besidesCompare == <<panelVars, bulkVars, pageVars>>

besidesPanel == <<compareVars, bulkVars, pageVars>>

besidesBulk == <<compareVars, panelVars, pageVars>>

besidesPage == <<compareVars, panelVars, bulkVars>>

laterVars == <<displayVars, restVars>>

vars == <<called, scorerVars, overviewVars, modalVars, unitVars, hookVars,
          laterVars>>

\* ---------------------------------------------------------------- helpers
Min(a, b) == IF a <= b THEN a ELSE b

\* all sequences over S of length at most n
RECURSIVE SeqsUpTo(_, _)
SeqsUpTo(S, n) ==
    IF n = 0 THEN {<<>>}
    ELSE LET shorter == SeqsUpTo(S, n - 1)
         IN  shorter \cup {Append(s, x) : s \in shorter, x \in S}

\* ---------------------------------------------------------------- risk scorer
\* the values bug.severity takes: the four BugReport severities and one
\* value outside them
Severities == {"critical", "high", "medium", "low", "blocker"}

Bug(sev) == [severity |-> sev]

\* variant: the critical case returns its points without the accumulator
SeverityPointsCriticalResets(score, bug) ==
    CASE bug.severity = "critical" -> 20
      [] bug.severity = "high"     -> score + 12
      [] bug.severity = "medium"   -> score + 6
      [] bug.severity = "low"      -> score + 2
      [] OTHER                     -> score + 6

\* the switch on bug.severity inside the reduce callbacks
SeverityPoints(score, bug) ==
    CASE bug.severity = "critical" -> score + 20
      [] bug.severity = "high"     -> score + 12
      [] bug.severity = "medium"   -> score + 6
      [] bug.severity = "low"      -> score + 2
      [] OTHER                     -> score + 6

\* openBugs.reduce(..., score): the callback applied left to right
RECURSIVE severityReduce(_, _)
severityReduce(openBugs, score) ==
    IF openBugs = <<>> THEN score
    ELSE severityReduce(Tail(openBugs), SeverityPoints(score, Head(openBugs)))

\* mutant: the weights of the component's earlier revision (0.7 / 0.3, no complexity)
calculateRiskScoreOldWeights(openBugs, testCount, screenCount) ==
    LET bugRiskScore == Min(Len(openBugs) * 3, 30) + severityReduce(openBugs, 0)
        testCoverageRisk ==
            IF testCount = 0 THEN 30
            ELSE IF testCount <= 5 THEN 20
            ELSE IF testCount <= 10 THEN 10
            ELSE 0
    IN  (bugRiskScore * 70) + (testCoverageRisk * 30)

\* RiskOverview.calculateRiskScore (the list view)
calculateRiskScore(openBugs, testCount, screenCount) ==
    LET bugVolumeScore == Min(Len(openBugs) * 3, 30)
        severityScore == severityReduce(openBugs, 0)
        bugRiskScore == bugVolumeScore + severityScore
        testCoverageRisk ==
            IF testCount = 0 THEN 30
            ELSE IF testCount <= 5 THEN 20
            ELSE IF testCount <= 10 THEN 10
            ELSE 0
        complexityRisk ==
            IF screenCount = 1 THEN 0
            ELSE IF screenCount <= 2 THEN 5
            ELSE IF screenCount <= 4 THEN 10
            ELSE 15
    IN  (bugRiskScore * 50) + (testCoverageRisk * 40) + (complexityRisk * 10)

\* mutant: strict comparisons at the two thresholds
getRiskLevelStrict(riskScore) ==
    IF riskScore < 2000 THEN "low"
    ELSE IF riskScore < 4000 THEN "medium"
    ELSE "high"

\* RiskOverview's getRiskLevel
getRiskLevel(riskScore) ==
    IF riskScore <= 2000 THEN "low"
    ELSE IF riskScore <= 4000 THEN "medium"
    ELSE "high"

\* the graph page's switch on bug.severity
pageSeverityPoints(score, bug) ==
    CASE bug.severity = "critical" -> score + 20
      [] bug.severity = "high"     -> score + 12
      [] bug.severity = "medium"   -> score + 6
      [] bug.severity = "low"      -> score + 2
      [] OTHER                     -> score + 6

\* openBugs.reduce(..., score): the callback applied left to right
RECURSIVE pageSeverityReduce(_, _)
pageSeverityReduce(openBugs, score) ==
    IF openBugs = <<>> THEN score
    ELSE pageSeverityReduce(Tail(openBugs), pageSeverityPoints(score, Head(openBugs)))

\* the graph page's calculateRiskScore
pageCalculateRiskScore(openBugs, testCount, screenCount) ==
    LET bugVolumeScore == Min(Len(openBugs) * 3, 30)
        severityScore == pageSeverityReduce(openBugs, 0)
        bugRiskScore == bugVolumeScore + severityScore
        testCoverageRisk ==
            IF testCount = 0 THEN 30
            ELSE IF testCount <= 5 THEN 20
            ELSE IF testCount <= 10 THEN 10
            ELSE 0
        complexityRisk ==
            IF screenCount = 1 THEN 0
            ELSE IF screenCount <= 2 THEN 5
            ELSE IF screenCount <= 4 THEN 10
            ELSE 15
    IN  (bugRiskScore * 50) + (testCoverageRisk * 40) + (complexityRisk * 10)

\* the graph page's getRiskLevel
pageGetRiskLevel(riskScore) ==
    IF riskScore <= 2000 THEN "low"
    ELSE IF riskScore <= 4000 THEN "medium"
    ELSE "high"

\* the modal's switch on bug.severity
modalSeverityPoints(score, bug) ==
    CASE bug.severity = "critical" -> score + 20
      [] bug.severity = "high"     -> score + 12
      [] bug.severity = "medium"   -> score + 6
      [] bug.severity = "low"      -> score + 2
      [] OTHER                     -> score + 6

\* openBugs.reduce(..., score): the callback applied left to right
RECURSIVE modalSeverityReduce(_, _)
modalSeverityReduce(openBugs, score) ==
    IF openBugs = <<>> THEN score
    ELSE modalSeverityReduce(Tail(openBugs), modalSeverityPoints(score, Head(openBugs)))

\* UnifiedDetailsModal.calculateBugRisk
calculateBugRisk(openBugs) ==
    LET bugVolumeScore == Min(Len(openBugs) * 3, 30)
        severityScore == modalSeverityReduce(openBugs, 0)
    IN  bugVolumeScore + severityScore

\* UnifiedDetailsModal.calculateTestCoverageRisk
calculateTestCoverageRisk(testCount) ==
    IF testCount = 0 THEN 30
    ELSE IF testCount <= 5 THEN 20
    ELSE IF testCount <= 10 THEN 10
    ELSE 0

\* mutant: the complexity steps moved up by one screen
calculateComplexityRiskShifted(screenCount) ==
    IF screenCount <= 2 THEN 0
    ELSE IF screenCount <= 3 THEN 5
    ELSE IF screenCount <= 5 THEN 10
    ELSE 15

\* UnifiedDetailsModal.calculateComplexityRisk
calculateComplexityRisk(screenCount) ==
    IF screenCount = 1 THEN 0
    ELSE IF screenCount <= 2 THEN 5
    ELSE IF screenCount <= 4 THEN 10
    ELSE 15

\* UnifiedDetailsModal.getRiskLevel
modalGetRiskLevel(riskScore) ==
    IF riskScore <= 2000 THEN "low"
    ELSE IF riskScore <= 4000 THEN "medium"
    ELSE "high"

\* the breakdown's weighted sub-scores (x 0.5, x 0.4, x 0.1), in hundredths
ModalWeighted(parts) ==
    [bug |-> parts.bug * 50, coverage |-> parts.coverage * 40,
     complexity |-> parts.complexity * 10]

\* Math.round of a non-negative number given in hundredths: halves round up
MathRound(hundredths) == (hundredths + 50) \div 100

\* UnifiedDetailsModal, "Risk Calculation Breakdown": the three weighted
\* sub-scores and the total, each passed through Math.round
RiskCalculationBreakdown(openBugs, testCount, screenCount, riskScore) ==
    LET weighted == ModalWeighted([bug |-> calculateBugRisk(openBugs),
                                   coverage |-> calculateTestCoverageRisk(testCount),
                                   complexity |-> calculateComplexityRisk(screenCount)])
    IN  [bug |-> MathRound(weighted.bug),
         coverage |-> MathRound(weighted.coverage),
         complexity |-> MathRound(weighted.complexity),
         total |-> MathRound(riskScore)]

\* ---------------------------------------------------------------- feature grouping
\* an optional string field (product?, section?, feature?): <<>> is undefined
Undefined == <<>>
Some(str) == <<str>>

\* JavaScript truthiness of an optional string: undefined and "" are falsy
Truthy(opt) == opt # Undefined /\ opt[1] # ""

\* `${opt}` inside a template literal: undefined prints as "undefined"
TemplateString(opt) == IF opt = Undefined THEN "undefined" ELSE opt[1]

\* a FlowNodeData, as far as RiskOverview reads it
Screen(label, product, section, feature) ==
    [label |-> label, product |-> product, section |-> section, feature |-> feature]

\* `${node.product}:${node.section}:${node.feature}`
FeatureKey(node) ==
    TemplateString(node.product) \o ":" \o TemplateString(node.section)
        \o ":" \o TemplateString(node.feature)

\* featureMap.has(key)
MapHas(map, key) == \E e \in 1..Len(map) : map[e].key = key

\* featureMap.get(key), for a key the map has
MapGet(map, key) == map[CHOOSE e \in 1..Len(map) : map[e].key = key].screens

\* one call of the forEach callback; the Map is kept as its entries in insertion order
GroupNode(map, node) ==
    IF ~Truthy(node.feature) \/ ~Truthy(node.product) THEN map
    ELSE LET key == FeatureKey(node)
             withKey == IF MapHas(map, key) THEN map
                        ELSE Append(map, [key |-> key, screens |-> <<>>])
         IN  [e \in 1..Len(withKey) |->
                IF withKey[e].key = key
                THEN [withKey[e] EXCEPT !.screens = Append(@, node)]
                ELSE withKey[e]]

\* nodes.forEach(...) from a given Map
RECURSIVE forEachNode(_, _)
forEachNode(nodeList, map) ==
    IF nodeList = <<>> THEN map
    ELSE forEachNode(Tail(nodeList), GroupNode(map, Head(nodeList)))

\* "Group nodes by feature": the Map calculateFeatureRiskData iterates
groupByFeature(nodeList) == forEachNode(nodeList, <<>>)

\* ---------------------------------------------------------------- grouping harness
GroupProducts == {Some("a"), Some("a:b"), Undefined}
GroupSections == {Some("c"), Some("b:c"), Undefined}
GroupFeatures == {Some("f"), Undefined}

\* node lists of at most MaxGroupNodes screens, labelled by position
GroupInputs ==
    UNION {[1..n -> GroupProducts \X GroupSections \X GroupFeatures] :
            n \in 0..MaxGroupNodes}

ScreensOf(triples) ==
    [i \in 1..Len(triples) |->
        Screen(i, triples[i][1], triples[i][2], triples[i][3])]

\* ---------------------------------------------------------------- scorer harness
\* bug lists: an arbitrary prefix followed by a run of equal-severity bugs
RepeatBug(sev, n) == [i \in 1..n |-> Bug(sev)]

GeneratedBugLists ==
    {p \o RepeatBug(sev, n) :
        p \in SeqsUpTo({Bug(s) : s \in Severities}, MaxPrefix),
        sev \in Severities, n \in 0..MaxRepeat}

\* the bug lists of the three worked scenarios
ScenarioNoBugs == <<>>
ScenarioSixLow == RepeatBug("low", 6)
ScenarioMixed ==
    <<Bug("medium"), Bug("medium"), Bug("high"), Bug("low"), Bug("medium")>>

BugLists == GeneratedBugLists \cup {ScenarioNoBugs, ScenarioSixLow, ScenarioMixed}

NoParts == [bug |-> 0, coverage |-> 0, complexity |-> 0]
NoLevels == [list |-> "none", page |-> "none", modal |-> "none"]

NoBreakdown == [bug |-> 0, coverage |-> 0, complexity |-> 0, total |-> 0]
NoQualityLevel == [quality |-> "none", composite |-> "none"]

\* the breakdown and calculateRiskLevel harnesses at rest
DisplayIdle ==
    /\ breakdown = NoBreakdown
    /\ bugCountArg = 0
    /\ qualityLevel = NoQualityLevel

NoQuery == [product |-> "", statusCategory |-> "open", section |-> Undefined,
            feature |-> Undefined]

\* the getBugReportsByStatus comparison at rest
CompareIdle ==
    /\ storeArg = <<>>
    /\ queryArg = NoQuery
    /\ realAnswer = <<>>
    /\ mockAnswer = <<>>

\* NodeDetailsPanel as constructed, nothing selected
PanelIdle ==
    /\ selectedNode = Undefined
    /\ showBugDetails = FALSE
    /\ panelOpenBugs = <<>>
    /\ panelClosedBugs = <<>>
    /\ loadingBugs = FALSE
    /\ bugLoads = <<>>
    /\ bugsFetchedFor = Undefined

NoFetch == [pc |-> "none", mounted |-> TRUE]

\* useBulkQualityMetrics as constructed, for no features
BulkIdle ==
    /\ bulkFeatures = <<>>
    /\ bulkPhase = "initial"
    /\ bulkMetrics = <<>>
    /\ bulkLoading = TRUE
    /\ bulkError = "null"
    /\ bulkFetch = NoFetch

NoFilters == [products |-> {}, sections |-> {}, riskLevels |-> {}]

\* GraphPage as constructed, for an empty /flow.json
PageIdle ==
    /\ flowJson = [nodes |-> <<>>, edges |-> <<>>]
    /\ pagePc = "fetch"
    /\ nodeTasks = <<>>
    /\ flowData = Undefined
    /\ filters = NoFilters
    /\ rfNodes = <<>>
    /\ rfEdges = <<>>

IdleBesidesCompare == PanelIdle /\ BulkIdle /\ PageIdle

IdleBesidesPanel == CompareIdle /\ BulkIdle /\ PageIdle

IdleBesidesBulk == CompareIdle /\ PanelIdle /\ PageIdle

IdleBesidesPage == CompareIdle /\ PanelIdle /\ BulkIdle

RestIdle == CompareIdle /\ PanelIdle /\ BulkIdle /\ PageIdle

LaterIdle == DisplayIdle /\ RestIdle

\* the scorer harness at rest
ScorerIdle ==
    /\ openBugsArg = <<>>
    /\ testCountArg = 0
    /\ screenCountArg = 1
    /\ riskScoreArg = 0
    /\ listScore = 0
    /\ pageScore = 0
    /\ modalParts = NoParts
    /\ levels = NoLevels

\* RiskOverview not rendered
OverviewIdle ==
    /\ nodes = <<>>
    /\ featureMap = <<>>
    /\ featureRiskData = <<>>
    /\ loading = TRUE
    /\ error = "null"
    /\ runs = <<>>
    /\ net = "up"
    /\ bugService = "RealSupabaseService"
    /\ testService = "RealAllureService"

\* a TestStats | null: null is [isNull |-> TRUE]
NullStats == [isNull |-> TRUE, total |-> 0, passed |-> 0, failed |-> 0, skipped |-> 0]

\* a TestCoverage | null
NullCoverage == [isNull |-> TRUE, totalTests |-> 0, linesCovered |-> 0, totalLines |-> 0]

\* UnifiedDetailsModal's useState initial values, the modal closed
ModalIdle ==
    /\ isOpen = FALSE
    /\ nodeData = <<>>
    /\ featureData = <<>>
    /\ modalPc = "closed"
    /\ modalLoading = FALSE
    /\ bugs = <<>>
    /\ docs = <<>>
    /\ testCoverage = NullCoverage
    /\ testStats = NullStats
    /\ testCases = <<>>
    /\ hasErrors = FALSE
    /\ fetchFailed = {}

\* no row and no stats handed to the harnesses
NoRow == <<>>
NoReport == <<>>
NoCounts == [list |-> 0, page |-> 0, listScore |-> 0, pageScore |-> 0]

\* no component uses useQualityMetrics
HookIdle ==
    /\ hookProps = [product |-> "a", section |-> Some("c"), feature |-> Some("f")]
    /\ hookPhase = "initial"
    /\ metrics = <<>>
    /\ hookLoading = TRUE
    /\ hookError = "null"
    /\ fetches = <<>>
    /\ staleWrite = FALSE

\* the normalization and test-count harnesses at rest
UnitIdle ==
    /\ rowArg = NoRow
    /\ bugReport = NoReport
    /\ statsArg = NullStats
    /\ testCounts = NoCounts

InitScore ==
    /\ openBugsArg \in BugLists
    /\ testCountArg \in 0..MaxTests
    /\ screenCountArg \in 1..MaxScreens
    /\ riskScoreArg = 0
    /\ called = FALSE
    /\ listScore = 0
    /\ pageScore = 0
    /\ modalParts = NoParts
    /\ levels = NoLevels
    /\ OverviewIdle
    /\ ModalIdle
    /\ UnitIdle
    /\ HookIdle
    /\ LaterIdle

\* apply the three call sites' scorers to the same arguments
ScoreCall ==
    /\ ~called
    /\ called' = TRUE
    /\ listScore' = calculateRiskScore(openBugsArg, testCountArg, screenCountArg)
    /\ pageScore' = pageCalculateRiskScore(openBugsArg, testCountArg, screenCountArg)
    /\ modalParts' = [bug |-> calculateBugRisk(openBugsArg),
                      coverage |-> calculateTestCoverageRisk(testCountArg),
                      complexity |-> calculateComplexityRisk(screenCountArg)]
    /\ levels' = [list |-> getRiskLevel(listScore'),
                  page |-> pageGetRiskLevel(pageScore'),
                  modal |-> modalGetRiskLevel(listScore')]
    /\ riskScoreArg' = listScore'
    /\ breakdown' = RiskCalculationBreakdown(openBugsArg, testCountArg,
                                             screenCountArg, listScore')
    /\ UNCHANGED <<openBugsArg, testCountArg, screenCountArg, overviewVars, modalVars,
                   unitVars, hookVars, bugCountArg, qualityLevel, restVars>>

NextScore == ScoreCall

SpecScore == InitScore /\ [][NextScore]_vars

InitLevel ==
    /\ riskScoreArg \in 0..MaxScore
    /\ openBugsArg = <<>>
    /\ testCountArg = 0
    /\ screenCountArg = 1
    /\ called = FALSE
    /\ listScore = 0
    /\ pageScore = 0
    /\ modalParts = NoParts
    /\ levels = NoLevels
    /\ OverviewIdle
    /\ ModalIdle
    /\ UnitIdle
    /\ HookIdle
    /\ LaterIdle

\* apply the three getRiskLevel copies to the same score
LevelCall ==
    /\ ~called
    /\ called' = TRUE
    /\ levels' = [list |-> getRiskLevel(riskScoreArg),
                  page |-> pageGetRiskLevel(riskScoreArg),
                  modal |-> modalGetRiskLevel(riskScoreArg)]
    /\ UNCHANGED <<openBugsArg, testCountArg, screenCountArg, riskScoreArg,
                   listScore, pageScore, modalParts, overviewVars, modalVars,
                   unitVars, hookVars, laterVars>>

NextLevel == LevelCall

SpecLevel == InitLevel /\ [][NextLevel]_vars

InitGroup ==
    /\ \E triples \in GroupInputs : nodes = ScreensOf(triples)
    /\ called = FALSE
    /\ ScorerIdle
    /\ ModalIdle
    /\ UnitIdle
    /\ HookIdle
    /\ LaterIdle
    /\ featureMap = <<>>
    /\ featureRiskData = <<>>
    /\ loading = TRUE
    /\ error = "null"
    /\ runs = <<>>
    /\ net = "up"
    /\ bugService = "RealSupabaseService"
    /\ testService = "RealAllureService"

\* run the grouping loop over the nodes
GroupCall ==
    /\ ~called
    /\ called' = TRUE
    /\ featureMap' = groupByFeature(nodes)
    /\ UNCHANGED <<openBugsArg, testCountArg, screenCountArg, riskScoreArg,
                   listScore, pageScore, modalParts, levels>>
    /\ UNCHANGED <<nodes, featureRiskData, loading, error, runs, net, bugService,
                   testService, modalVars, unitVars, hookVars, laterVars>>

NextGroup == GroupCall

SpecGroup == InitGroup /\ [][NextGroup]_vars

\* ---------------------------------------------------------------- providers
\* a row of the documents table with metadata.sourceType = 'bug'
BugRow(id, product, section, feature, issueType, status, statusCategory) ==
    [id |-> id, product |-> product, section |-> section, feature |-> feature,
     issueType |-> issueType, status |-> status, statusCategory |-> statusCategory]

\* the bug rows the store holds
StoredBugRows ==
    << BugRow("r1", "a", "c", "f", Some("Security"), Some("Open"), "open"),
       BugRow("r2", "a", "c", "f", Some("Bug"), Some("In Progress"), "open"),
       BugRow("r3", "a", "c", "f", Some("Task"), Some("Done"), "closed"),
       BugRow("r4", "a", "c", "g", Some("Story"), Some("New"), "open"),
       BugRow("r5", "b", "c", "k", Some("Critical"), Some("Open"), "open"),
       BugRow("r6", "b", "c", "k", Some("Medium"), Some("Open"), "open") >>

\* String.prototype.toLowerCase on the strings the store holds
ToLowerCase(str) ==
    CASE str = "Security" -> "security"
      [] str = "Critical" -> "critical"
      [] str = "Bug" -> "bug"
      [] str = "High" -> "high"
      [] str = "Medium" -> "medium"
      [] str = "Low" -> "low"
      [] str = "Task" -> "task"
      [] str = "Story" -> "story"
      [] str = "Open" -> "open"
      [] str = "In Progress" -> "in progress"
      [] str = "Done" -> "done"
      [] str = "New" -> "new"
      [] str = "Fixed" -> "fixed"
      [] str = "Reopened" -> "reopened"
      [] OTHER -> str

\* value?.toLowerCase() on an optional string
OptionalToLowerCase(opt) ==
    IF opt = Undefined THEN Undefined ELSE Some(ToLowerCase(opt[1]))

\* RealSupabaseService.mapIssueTypeToSeverity
mapIssueTypeToSeverity(issueType) ==
    LET t == OptionalToLowerCase(issueType)
    IN  CASE t \in {Some("security"), Some("critical")} -> "critical"
          [] t \in {Some("bug"), Some("high")} -> "high"
          [] t = Some("medium") -> "medium"
          [] OTHER -> "low"

\* RealSupabaseService.mapStatusToStandardStatus
mapStatusToStandardStatus(status) ==
    LET t == OptionalToLowerCase(status)
    IN  CASE t \in {Some("open"), Some("new")} -> "open"
          [] t \in {Some("in progress"), Some("in-progress"), Some("working")}
                -> "in-progress"
          [] t \in {Some("resolved"), Some("fixed")} -> "resolved"
          [] t \in {Some("closed"), Some("not a bug"), Some("done")} -> "closed"
          [] OTHER -> "open"

\* RealSupabaseService.convertRowToBugReport
convertRowToBugReport(row) ==
    [id |-> row.id, product |-> row.product, section |-> row.section,
     feature |-> row.feature,
     severity |-> mapIssueTypeToSeverity(row.issueType),
     status |-> mapStatusToStandardStatus(row.status),
     issueType |-> row.issueType, statusCategory |-> row.statusCategory]

\* Array.prototype.filter on the stored rows
RECURSIVE FilterRows(_, _, _)
FilterRows(rows, statusCategory, feature) ==
    IF rows = <<>> THEN <<>>
    ELSE LET row == Head(rows)
             rest == FilterRows(Tail(rows), statusCategory, feature)
         IN  IF row.statusCategory = statusCategory
                 /\ (Truthy(feature) => row.feature = feature[1])
             THEN <<row>> \o rest ELSE rest

\* what a call of the query or of the HTTP request can do
TransportOutcomes == {"ok", "error", "throw"}

\* a settled promise
Resolved(value) == [rejected |-> FALSE, value |-> value]
Rejected == [rejected |-> TRUE, value |-> <<>>]

\* the query of getBugReportsByStatus: sourceType bug, statusCategory, and the
\* feature when one is given
BugQuery(statusCategory, feature) ==
    LET rows == FilterRows(StoredBugRows, statusCategory, feature)
    IN  [r \in 1..Len(rows) |-> convertRowToBugReport(rows[r])]

\* mutant: the catch block rethrows, as upsertBugReport's does
RealGetBugReportsByStatusRethrow(outcome, product, statusCategory, section, feature) ==
    IF outcome = "ok" THEN Resolved(BugQuery(statusCategory, feature))
    ELSE IF outcome = "error" THEN Resolved(<<>>)
    ELSE Rejected

\* RealSupabaseService.getBugReportsByStatus: an error result and a thrown
\* exception both end in the empty list
RealGetBugReportsByStatus(outcome, product, statusCategory, section, feature) ==
    IF outcome = "ok" THEN Resolved(BugQuery(statusCategory, feature))
    ELSE IF outcome = "error" THEN Resolved(<<>>)
    ELSE Resolved(<<>>)

\* SupabaseService.getBugReportsByStatus as the interface declares it: a
\* promise of a bug list, which an implementation without a catch rejects
InterfaceGetBugReportsByStatus(outcome, product, statusCategory, section, feature) ==
    IF outcome = "ok" THEN Resolved(BugQuery(statusCategory, feature))
    ELSE Rejected

\* supabaseService.getBugReportsByStatus(...) on the injected service
getBugReportsByStatus(service, outcome, product, statusCategory, section, feature) ==
    IF service = "RealSupabaseService"
    THEN RealGetBugReportsByStatus(outcome, product, statusCategory, section, feature)
    ELSE InterfaceGetBugReportsByStatus(outcome, product, statusCategory, section, feature)

\* FEATURE_MAPPING and test-features.json: the features TestOps knows
AllureMappedFeatures == {"f", "g", "k"}

\* the statuses of the test cases TestOps holds for a mapped feature
StoredTestCases(feature) ==
    CASE feature = "f" -> [c \in 1..12 |-> IF c <= 9 THEN "passed"
                                           ELSE IF c <= 11 THEN "failed" ELSE "skipped"]
      [] feature = "g" -> <<"passed", "failed", "broken">>
      [] feature = "k" -> [c \in 1..7 |-> "passed"]
      [] OTHER -> <<>>

\* RealAllureService.getTestCases: no feature, no mapped id, a failed
\* response and a thrown exception all end in the empty list
RealGetTestCases(outcome, product, section, feature) ==
    IF ~Truthy(feature) THEN <<>>
    ELSE IF feature[1] \notin AllureMappedFeatures THEN <<>>
    ELSE IF outcome = "ok" THEN StoredTestCases(feature[1])
    ELSE <<>>

CountStatus(cases, status) ==
    Cardinality({c \in 1..Len(cases) : cases[c] = status})

\* RealAllureService.getTestStats
RealGetTestStats(outcome, product, section, feature) ==
    LET cases == RealGetTestCases(outcome, product, section, feature)
    IN  IF Len(cases) = 0 THEN Resolved(NullStats)
        ELSE Resolved([isNull |-> FALSE, total |-> Len(cases),
                       passed |-> CountStatus(cases, "passed"),
                       failed |-> CountStatus(cases, "failed"),
                       skipped |-> CountStatus(cases, "skipped")])

\* variant: the passed count in place of the total
TotalOrZeroPassed(stats) == IF stats.isNull THEN 0 ELSE stats.passed

\* graph page: testStats?.total || 0
pageTotalOrZero(stats) == IF stats.isNull THEN 0 ELSE stats.total

\* testStats?.total || 0
TotalOrZero(stats) == IF stats.isNull THEN 0 ELSE stats.total

\* the outcomes the environment allows
Outcomes(mode) ==
    CASE mode = "up" -> {"ok"}
      [] mode = "down" -> {"error", "throw"}
      [] OTHER -> TransportOutcomes

\* AllureService.getTestStats as the interface declares it: a promise an
\* implementation without a catch rejects
InterfaceGetTestStats(outcome, product, section, feature) ==
    IF outcome = "ok" THEN RealGetTestStats(outcome, product, section, feature)
    ELSE Rejected

\* allureService.getTestStats(...) on the injected service
getTestStats(service, outcome, product, section, feature) ==
    IF service = "RealAllureService"
    THEN RealGetTestStats(outcome, product, section, feature)
    ELSE InterfaceGetTestStats(outcome, product, section, feature)

\* the promise of RealAllureService.getTestCases
RealGetTestCasesPromise(outcome, product, section, feature) ==
    Resolved(RealGetTestCases(outcome, product, section, feature))

\* allureService.getTestCases(...) on the injected service
getTestCases(service, outcome, product, section, feature) ==
    IF service = "RealAllureService" \/ outcome = "ok"
    THEN RealGetTestCasesPromise(outcome, product, section, feature)
    ELSE Rejected

\* RealAllureService.getTestCoverage: its own getTestCases request, the
\* feature id, then getTestStats with a second request
RealGetTestCoverage(outcome, second, product, section, feature) ==
    LET cases == RealGetTestCases(outcome, product, section, feature)
        got == RealGetTestStats(second, product, section, feature).value
    IN  IF Len(cases) = 0 THEN Resolved(NullCoverage)
        ELSE IF feature[1] \notin AllureMappedFeatures THEN Resolved(NullCoverage)
        ELSE IF got.isNull THEN Resolved(NullCoverage)
        ELSE Resolved([isNull |-> FALSE, totalTests |-> got.total,
                       linesCovered |-> got.passed, totalLines |-> got.total])

\* allureService.getTestCoverage(...) on the injected service
getTestCoverage(service, outcome, second, product, section, feature) ==
    IF service = "RealAllureService" \/ (outcome = "ok" /\ second = "ok")
    THEN RealGetTestCoverage(outcome, second, product, section, feature)
    ELSE Rejected

\* the query of getBugReports and getProductDocs: the product, and the
\* section and feature when they are non-empty
RECURSIVE FilterByTriple(_, _, _, _)
FilterByTriple(rows, product, section, feature) ==
    IF rows = <<>> THEN <<>>
    ELSE LET row == Head(rows)
             rest == FilterByTriple(Tail(rows), product, section, feature)
         IN  IF /\ row.product = product[1]
                /\ (Truthy(section) => row.section = section[1])
                /\ (Truthy(feature) => row.feature = feature[1])
             THEN <<row>> \o rest ELSE rest

\* RealSupabaseService.getBugReports
RealGetBugReports(outcome, product, section, feature) ==
    LET rows == FilterByTriple(StoredBugRows, product, section, feature)
    IN  IF outcome = "ok"
        THEN Resolved([r \in 1..Len(rows) |-> convertRowToBugReport(rows[r])])
        ELSE Resolved(<<>>)

\* supabaseService.getBugReports(...) on the injected service
getBugReports(service, outcome, product, section, feature) ==
    IF service = "RealSupabaseService" \/ outcome = "ok"
    THEN RealGetBugReports(outcome, product, section, feature)
    ELSE Rejected

\* the rows of the documents table with metadata.sourceType = 'docs'
StoredDocRows ==
    << [id |-> "d1", product |-> "a", section |-> "c", feature |-> "f"],
       [id |-> "d2", product |-> "a", section |-> "c", feature |-> "g"] >>

\* RealSupabaseService.getProductDocs
RealGetProductDocs(outcome, product, section, feature) ==
    IF outcome = "ok"
    THEN Resolved(FilterByTriple(StoredDocRows, product, section, feature))
    ELSE Resolved(<<>>)

\* supabaseService.getProductDocs(...) on the injected service
getProductDocs(service, outcome, product, section, feature) ==
    IF service = "RealSupabaseService" \/ outcome = "ok"
    THEN RealGetProductDocs(outcome, product, section, feature)
    ELSE Rejected

\* ---------------------------------------------------------------- normalization harness
\* the upstream issue types and statuses a row carries, Undefined when the
\* metadata field is missing
IssueTypes ==
    {Undefined, Some("Security"), Some("Critical"), Some("Bug"), Some("High"),
     Some("Medium"), Some("Low"), Some("Story"), Some("Task")}

Statuses ==
    {Undefined, Some("Open"), Some("New"), Some("In Progress"), Some("Fixed"),
     Some("Done"), Some("Reopened")}

InitNormalize ==
    /\ \E issueType \in IssueTypes, status \in Statuses :
        rowArg = Some(BugRow("r0", "a", "c", "f", issueType, status, "open"))
    /\ bugReport = NoReport
    /\ statsArg = NullStats
    /\ testCounts = NoCounts
    /\ called = FALSE
    /\ ScorerIdle
    /\ OverviewIdle
    /\ ModalIdle
    /\ HookIdle
    /\ LaterIdle

\* results.map(row => this.convertRowToBugReport(row)) on one row
NormalizeCall ==
    /\ ~called
    /\ called' = TRUE
    /\ bugReport' = Some(convertRowToBugReport(rowArg[1]))
    /\ UNCHANGED <<rowArg, statsArg, testCounts, scorerVars, overviewVars, modalVars,
                   hookVars, laterVars>>

NextNormalize == NormalizeCall

SpecNormalize == InitNormalize /\ [][NextNormalize]_vars

\* ---------------------------------------------------------------- test-count harness
\* the TestStats | null a test provider returns: the total counts every
\* case, broken ones included, so the three parts may add up to less
StatsInputs ==
    {NullStats} \cup
    {st \in [isNull : {FALSE}, total : 0..MaxStatTotal, passed : 0..MaxStatTotal,
             failed : 0..1, skipped : {0}] : st.passed + st.failed <= st.total}

InitStats ==
    /\ statsArg \in StatsInputs
    /\ rowArg = NoRow
    /\ bugReport = NoReport
    /\ testCounts = NoCounts
    /\ called = FALSE
    /\ ScorerIdle
    /\ OverviewIdle
    /\ ModalIdle
    /\ HookIdle
    /\ LaterIdle

\* the testCount both call sites derive from the returned stats, and the
\* score of a bucket without bugs and with one screen
StatsCall ==
    /\ ~called
    /\ called' = TRUE
    /\ testCounts' =
        [list |-> TotalOrZero(statsArg),
         page |-> pageTotalOrZero(statsArg),
         listScore |-> calculateRiskScore(<<>>, TotalOrZero(statsArg), 1),
         pageScore |-> pageCalculateRiskScore(<<>>, pageTotalOrZero(statsArg), 1)]
    /\ UNCHANGED <<rowArg, bugReport, statsArg, scorerVars, overviewVars, modalVars,
                   hookVars, laterVars>>

NextStats == StatsCall

SpecStats == InitStats /\ [][NextStats]_vars

\* ---------------------------------------------------------------- RiskOverview
\* mutant: the comparator turned round (a.riskScore - b.riskScore)
RECURSIVE insertByRiskAscending(_, _)
insertByRiskAscending(sorted, item) ==
    IF sorted = <<>> THEN <<item>>
    ELSE IF Head(sorted).riskScore <= item.riskScore
         THEN <<Head(sorted)>> \o insertByRiskAscending(Tail(sorted), item)
         ELSE <<item>> \o sorted

\* the place of one item under (a, b) => b.riskScore - a.riskScore in a
\* stable sort: behind every item that scores at least as much
RECURSIVE insertByRisk(_, _)
insertByRisk(sorted, item) ==
    IF sorted = <<>> THEN <<item>>
    ELSE IF Head(sorted).riskScore >= item.riskScore
         THEN <<Head(sorted)>> \o insertByRisk(Tail(sorted), item)
         ELSE <<item>> \o sorted

\* featureRiskData.sort((a, b) => b.riskScore - a.riskScore)
RECURSIVE sortByRisk(_, _)
sortByRisk(list, sorted) ==
    IF list = <<>> THEN sorted
    ELSE sortByRisk(Tail(list), insertByRisk(sorted, Head(list)))

Pending == [settled |-> FALSE, value |-> <<>>]
Settled(value) == [settled |-> TRUE, value |-> value]

\* a call of calculateFeatureRiskData up to its first await; threw and
\* firstSettled are history: the bucket whose await rejected, and per bucket
\* which of the two bug fetches settled first
BeginRun(nodeList) ==
    LET map == groupByFeature(nodeList)
    IN  [featureMap |-> map, i |-> 1,
         pc |-> IF map = <<>> THEN "done" ELSE "bugs",
         open |-> Pending, closed |-> Pending,
         acc |-> <<>>, result |-> <<>>, threw |-> 0,
         firstSettled |-> <<>>]

\* variant: the score is computed from the closed bugs
FeatureRiskFromClosed(run, stats) ==
    LET entry == run.featureMap[run.i]
        screens == entry.screens
        firstScreen == screens[1]
        testCount == TotalOrZero(stats)
        screenCount == Len(screens)
    IN  [featureId |-> entry.key,
         featureName |-> IF Truthy(firstScreen.feature) THEN firstScreen.feature[1]
                         ELSE "Unknown Feature",
         product |-> IF Truthy(firstScreen.product) THEN firstScreen.product[1]
                     ELSE "Unknown Product",
         section |-> IF Truthy(firstScreen.section) THEN firstScreen.section[1]
                     ELSE "Unknown Section",
         screens |-> screens,
         riskScore |-> calculateRiskScore(run.closed.value, testCount, screenCount),
         openBugs |-> run.open.value,
         closedBugs |-> run.closed.value,
         testCount |-> testCount]

\* the FeatureRiskData pushed for the current bucket
FeatureRisk(run, stats) ==
    LET entry == run.featureMap[run.i]
        screens == entry.screens
        firstScreen == screens[1]
        testCount == TotalOrZero(stats)
        screenCount == Len(screens)
    IN  [featureId |-> entry.key,
         featureName |-> IF Truthy(firstScreen.feature) THEN firstScreen.feature[1]
                         ELSE "Unknown Feature",
         product |-> IF Truthy(firstScreen.product) THEN firstScreen.product[1]
                     ELSE "Unknown Product",
         section |-> IF Truthy(firstScreen.section) THEN firstScreen.section[1]
                     ELSE "Unknown Section",
         screens |-> screens,
         riskScore |-> calculateRiskScore(run.open.value, testCount, screenCount),
         openBugs |-> run.open.value,
         closedBugs |-> run.closed.value,
         testCount |-> testCount]

\* the loop body behind the getTestStats await, then the next bucket's
\* Promise.all or the sort behind the loop
PushAndContinue(run, stats) ==
    LET pushed == Append(run.acc, FeatureRisk(run, stats))
    IN  IF run.i < Len(run.featureMap)
        THEN [run EXCEPT !.acc = pushed, !.i = @ + 1, !.pc = "bugs",
                         !.open = Pending, !.closed = Pending]
        ELSE [run EXCEPT !.acc = pushed, !.pc = "done",
                         !.result = sortByRisk(pushed, <<>>)]

\* the catch block: the run ends without a list
FailRun(run) == [run EXCEPT !.pc = "failed", !.threw = run.i]

\* variant: setLoading(false) at the end of the try block, no finally
CommitNoFinally(r, after) ==
    /\ runs' = [runs EXCEPT ![r] = after]
    /\ featureRiskData' = IF after.pc = "done" THEN after.result ELSE featureRiskData
    /\ error' = IF after.pc = "failed" THEN "Provider error" ELSE error
    /\ loading' = IF after.pc = "done" THEN FALSE ELSE loading

\* the component state after a step of run r: setFeatureRiskData and
\* setLoading(false) when it ended, setError in the catch block
Commit(r, after) ==
    /\ runs' = [runs EXCEPT ![r] = after]
    /\ featureRiskData' = IF after.pc = "done" THEN after.result ELSE featureRiskData
    /\ error' = IF after.pc = "failed" THEN "Provider error" ELSE error
    /\ loading' = IF after.pc \in {"done", "failed"} THEN FALSE ELSE loading

\* useEffect(() => { calculateFeatureRiskData() }, [nodes]) after the mount
StartRun ==
    /\ runs = <<>>
    /\ LET run == BeginRun(nodes)
       IN  /\ runs' = <<run>>
           /\ featureRiskData' = IF run.pc = "done" THEN run.result ELSE featureRiskData
           /\ loading' = (run.pc # "done")
    /\ UNCHANGED <<nodes, featureMap, error, net, bugService, testService, called,
                   scorerVars, modalVars, unitVars, hookVars, laterVars>>

\* variant: both fetches write one shared result, so the open bugs that
\* arrive last also replace the closed bugs
OpenBugsSettleShared(r) ==
    /\ runs[r].pc = "bugs"
    /\ ~runs[r].open.settled
    /\ \E outcome \in Outcomes(net) :
        LET firstScreen == runs[r].featureMap[runs[r].i].screens[1]
            got == getBugReportsByStatus(bugService, outcome, firstScreen.product,
                        "open", firstScreen.section, firstScreen.feature)
            stored == [runs[r] EXCEPT !.open = Settled(got.value),
                         !.closed = IF runs[r].closed.settled THEN Settled(got.value)
                                    ELSE @,
                         !.firstSettled = IF runs[r].closed.settled THEN @
                                          ELSE Append(@, "open")]
        IN  Commit(r, IF got.rejected THEN FailRun(runs[r])
                      ELSE IF stored.closed.settled
                           THEN [stored EXCEPT !.pc = "tests"]
                           ELSE stored)
    /\ UNCHANGED <<nodes, featureMap, net, bugService, testService, called,
                   scorerVars, modalVars, unitVars, hookVars, laterVars>>

\* the first promise of Promise.all settles
OpenBugsSettle(r) ==
    /\ runs[r].pc = "bugs"
    /\ ~runs[r].open.settled
    /\ \E outcome \in Outcomes(net) :
        LET firstScreen == runs[r].featureMap[runs[r].i].screens[1]
            got == getBugReportsByStatus(bugService, outcome, firstScreen.product,
                        "open", firstScreen.section, firstScreen.feature)
            stored == [runs[r] EXCEPT !.open = Settled(got.value),
                         !.firstSettled = IF runs[r].closed.settled THEN @
                                          ELSE Append(@, "open")]
        IN  Commit(r, IF got.rejected THEN FailRun(runs[r])
                      ELSE IF stored.closed.settled
                           THEN [stored EXCEPT !.pc = "tests"]
                           ELSE stored)
    /\ UNCHANGED <<nodes, featureMap, net, bugService, testService, called,
                   scorerVars, modalVars, unitVars, hookVars, laterVars>>

\* the second promise of Promise.all settles
ClosedBugsSettle(r) ==
    /\ runs[r].pc = "bugs"
    /\ ~runs[r].closed.settled
    /\ \E outcome \in Outcomes(net) :
        LET firstScreen == runs[r].featureMap[runs[r].i].screens[1]
            got == getBugReportsByStatus(bugService, outcome, firstScreen.product,
                        "closed", firstScreen.section, firstScreen.feature)
            stored == [runs[r] EXCEPT !.closed = Settled(got.value),
                         !.firstSettled = IF runs[r].open.settled THEN @
                                          ELSE Append(@, "closed")]
        IN  Commit(r, IF got.rejected THEN FailRun(runs[r])
                      ELSE IF stored.open.settled
                           THEN [stored EXCEPT !.pc = "tests"]
                           ELSE stored)
    /\ UNCHANGED <<nodes, featureMap, net, bugService, testService, called,
                   scorerVars, modalVars, unitVars, hookVars, laterVars>>

\* allureService.getTestStats settles
TestStatsSettle(r) ==
    /\ runs[r].pc = "tests"
    /\ \E outcome \in Outcomes(net) :
        LET firstScreen == runs[r].featureMap[runs[r].i].screens[1]
            got == getTestStats(testService, outcome, firstScreen.product,
                        firstScreen.section, firstScreen.feature)
        IN  Commit(r, IF got.rejected THEN FailRun(runs[r])
                      ELSE PushAndContinue(runs[r], got.value))
    /\ UNCHANGED <<nodes, featureMap, net, bugService, testService, called,
                   scorerVars, modalVars, unitVars, hookVars, laterVars>>

\* the parent hands RiskOverview another nodes array: the effect runs again
NodesChange(nodeList) ==
    /\ runs # <<>>
    /\ Len(runs) < MaxRuns
    /\ nodeList # nodes
    /\ nodes' = nodeList
    /\ LET run == BeginRun(nodeList)
       IN  /\ runs' = Append(runs, run)
           /\ featureRiskData' = IF run.pc = "done" THEN run.result ELSE featureRiskData
           /\ loading' = (run.pc # "done")
    /\ UNCHANGED <<featureMap, error, net, bugService, testService, called,
                   scorerVars, modalVars, unitVars, hookVars, laterVars>>

\* the screens of the flow the overview is given
PoolScreens ==
    { Screen("Cart", Some("a"), Some("c"), Some("f")),
      Screen("Checkout", Some("a"), Some("c"), Some("f")),
      Screen("Guide", Some("a"), Some("c"), Some("g")),
      Screen("Chat", Some("a"), Some("c"), Some("h")) }

\* node lists of distinct screens
OverviewInputs ==
    {list \in SeqsUpTo(PoolScreens, MaxNodes) :
        \A j, k \in 1..Len(list) : j # k => list[j] # list[k]}

InitOverview ==
    /\ nodes \in OverviewInputs
    /\ net \in {"up", "flaky", "down"}
    /\ bugService \in {"RealSupabaseService", "SupabaseService"}
    /\ testService \in {"RealAllureService", "AllureService"}
    /\ featureMap = <<>>
    /\ featureRiskData = <<>>
    /\ loading = TRUE
    /\ error = "null"
    /\ runs = <<>>
    /\ called = FALSE
    /\ ScorerIdle
    /\ ModalIdle
    /\ UnitIdle
    /\ HookIdle
    /\ LaterIdle

NextOverview ==
    \/ StartRun
    \/ \E r \in 1..Len(runs) : OpenBugsSettle(r)
    \/ \E r \in 1..Len(runs) : ClosedBugsSettle(r)
    \/ \E r \in 1..Len(runs) : TestStatsSettle(r)

\* one RiskOverview, mounted once, under every environment
Spec == InitOverview /\ [][NextOverview]_vars

\* the node lists of the runs followed to their end: a bucket of two
\* screens and a second bucket
LiveInputs ==
    {list \in OverviewInputs :
        /\ Len(list) <= MaxLiveNodes
        /\ \A j \in 1..Len(list) : list[j].label \in {"Cart", "Checkout", "Guide"}}

InitLive ==
    /\ InitOverview
    /\ nodes \in LiveInputs

\* the same RiskOverview when the effect runs and every provider call that
\* is pending eventually resolves or rejects
SpecLive ==
    /\ InitLive
    /\ [][NextOverview]_vars
    /\ WF_vars(StartRun)
    /\ WF_vars(\E r \in 1..Len(runs) : OpenBugsSettle(r))
    /\ WF_vars(\E r \in 1..Len(runs) : ClosedBugsSettle(r))
    /\ WF_vars(\E r \in 1..Len(runs) : TestStatsSettle(r))

\* the node lists a changing nodes prop takes
RerunInputs == {list \in OverviewInputs : Len(list) <= MaxRerunNodes}

InitRerun ==
    /\ nodes \in RerunInputs
    /\ net = "up"
    /\ bugService = "RealSupabaseService"
    /\ testService = "RealAllureService"
    /\ featureMap = <<>>
    /\ featureRiskData = <<>>
    /\ loading = TRUE
    /\ error = "null"
    /\ runs = <<>>
    /\ called = FALSE
    /\ ScorerIdle
    /\ ModalIdle
    /\ UnitIdle
    /\ HookIdle
    /\ LaterIdle

NextRerun ==
    \/ StartRun
    \/ \E nodeList \in RerunInputs : NodesChange(nodeList)
    \/ \E r \in 1..Len(runs) : OpenBugsSettle(r)
    \/ \E r \in 1..Len(runs) : ClosedBugsSettle(r)
    \/ \E r \in 1..Len(runs) : TestStatsSettle(r)

\* one RiskOverview whose nodes prop changes while providers answer
SpecRerun == InitRerun /\ [][NextRerun]_vars

\* ---------------------------------------------------------------- UnifiedDetailsModal
\* value || '' on an optional string
OrEmpty(opt) == IF Truthy(opt) THEN opt ELSE Some("")

\* getCommonData: the triple the providers are asked for
commonData ==
    IF nodeData # Undefined
    THEN [product |-> OrEmpty(nodeData[1].product),
          section |-> OrEmpty(nodeData[1].section),
          feature |-> OrEmpty(nodeData[1].feature)]
    ELSE [product |-> Some(featureData[1].product),
          section |-> Some(featureData[1].section),
          feature |-> Some(featureData[1].feature)]

\* Boolean(featureData)
isFeatureMode == featureData # Undefined

\* the featureData prop RiskOverview builds from the selected list item
FeatureDataOf(item) ==
    [featureName |-> item.featureName, product |-> item.product,
     section |-> item.section, feature |-> item.featureName,
     screens |-> item.screens, riskScore |-> item.riskScore,
     openBugs |-> item.openBugs, closedBugs |-> item.closedBugs,
     testCount |-> item.testCount]

\* the list item RiskOverview computes for one screen's bucket when the
\* providers answered with the given outcomes
ListItem(screen, bugOutcome, testOutcome) ==
    LET begun == BeginRun(<<screen>>)
        open == RealGetBugReportsByStatus(bugOutcome, screen.product, "open",
                    screen.section, screen.feature).value
        closed == RealGetBugReportsByStatus(bugOutcome, screen.product, "closed",
                      screen.section, screen.feature).value
        run == [begun EXCEPT !.open = Settled(open), !.closed = Settled(closed)]
    IN  FeatureRisk(run, RealGetTestStats(testOutcome, screen.product,
                             screen.section, screen.feature).value)

\* Array.prototype.filter(bug => bug.status === status)
RECURSIVE FilterByStatus(_, _)
FilterByStatus(list, status) ==
    IF list = <<>> THEN <<>>
    ELSE IF Head(list).status = status
         THEN <<Head(list)>> \o FilterByStatus(Tail(list), status)
         ELSE FilterByStatus(Tail(list), status)

\* the lists the modal renders: the Open Bugs and Recently Closed Bugs counts
\* and cards
displayedOpenBugs == FilterByStatus(bugs, "open")
displayedClosedBugs == FilterByStatus(bugs, "closed")

\* variant: the test data is loaded in every mode
AfterDocsAlwaysFetch ==
    /\ modalPc' = "coverage"
    /\ UNCHANGED <<testCoverage, testStats, testCases, modalLoading>>

\* the rest of loadDetailedData behind the documentation fetch: either the
\* await of getTestCoverage, or the else branch and the finally block
AfterDocs ==
    IF ~isFeatureMode \/ featureData[1].testCount = 0
    THEN /\ modalPc' = "coverage"
         /\ UNCHANGED <<testCoverage, testStats, testCases, modalLoading>>
    ELSE /\ testStats' = [isNull |-> FALSE, total |-> featureData[1].testCount,
                          passed |-> 0, failed |-> 0, skipped |-> 0]
         /\ testCoverage' = NullCoverage
         /\ testCases' = <<>>
         /\ modalLoading' = FALSE
         /\ modalPc' = "done"

\* the modal opens: the effect resets the state and calls loadDetailedData,
\* which runs to its first await. Every await of loadDetailedData sits in
\* an inner try whose catch stores the empty value, and no statement between
\* them throws, so the outer catch with setHasErrors(true) is never entered:
\* no action below writes hasErrors.
OpenModal ==
    /\ ~isOpen
    /\ isOpen' = TRUE
    /\ docs' = <<>>
    /\ testCoverage' = NullCoverage
    /\ testStats' = NullStats
    /\ testCases' = <<>>
    /\ hasErrors' = FALSE
    /\ modalLoading' = TRUE
    /\ fetchFailed' = {}
    /\ IF isFeatureMode
       THEN /\ bugs' = featureData[1].openBugs \o featureData[1].closedBugs
            /\ modalPc' = "docs"
       ELSE /\ bugs' = <<>>
            /\ modalPc' = "bugs"
    /\ UNCHANGED <<nodeData, featureData, called, scorerVars, overviewVars, unitVars, hookVars, laterVars>>

\* variant: no inner try around the bug fetch, a rejection reaches the outer
\* catch and the finally block
BugReportsSettleOuterCatch ==
    /\ modalPc = "bugs"
    /\ \E outcome \in Outcomes(net) :
        LET got == getBugReports(bugService, outcome, commonData.product,
                       commonData.section, commonData.feature)
        IN  /\ bugs' = IF got.rejected THEN bugs ELSE got.value
            /\ fetchFailed' = IF outcome = "ok" THEN fetchFailed
                              ELSE fetchFailed \cup {"bugs"}
            /\ hasErrors' = (hasErrors \/ got.rejected)
            /\ modalLoading' = IF got.rejected THEN FALSE ELSE modalLoading
            /\ modalPc' = IF got.rejected THEN "done" ELSE "docs"
    /\ UNCHANGED <<isOpen, nodeData, featureData, docs, testCoverage,
                   testStats, testCases, called, scorerVars, overviewVars, unitVars,
                   hookVars, laterVars>>

\* screen mode: supabaseService.getBugReports settles; its catch block
\* stores the empty list
BugReportsSettle ==
    /\ modalPc = "bugs"
    /\ \E outcome \in Outcomes(net) :
        LET got == getBugReports(bugService, outcome, commonData.product,
                       commonData.section, commonData.feature)
        IN  /\ bugs' = IF got.rejected THEN <<>> ELSE got.value
            /\ fetchFailed' = IF outcome = "ok" THEN fetchFailed
                              ELSE fetchFailed \cup {"bugs"}
    /\ modalPc' = "docs"
    /\ UNCHANGED <<isOpen, nodeData, featureData, modalLoading, docs, testCoverage,
                   testStats, testCases, hasErrors, called, scorerVars, overviewVars, unitVars, hookVars, laterVars>>

\* supabaseService.getProductDocs settles
ProductDocsSettle ==
    /\ modalPc = "docs"
    /\ \E outcome \in Outcomes(net) :
        LET got == getProductDocs(bugService, outcome, commonData.product,
                       commonData.section, commonData.feature)
        IN  /\ docs' = IF got.rejected THEN <<>> ELSE got.value
            /\ fetchFailed' = IF outcome = "ok" THEN fetchFailed
                              ELSE fetchFailed \cup {"docs"}
    /\ AfterDocs
    /\ UNCHANGED <<isOpen, nodeData, featureData, bugs, hasErrors, called,
                   scorerVars, overviewVars, unitVars, hookVars, laterVars>>

\* allureService.getTestCoverage settles
TestCoverageSettle ==
    /\ modalPc = "coverage"
    /\ \E outcome, second \in Outcomes(net) :
        LET got == getTestCoverage(testService, outcome, second, commonData.product,
                       commonData.section, commonData.feature)
        IN  /\ testCoverage' = IF got.rejected THEN NullCoverage ELSE got.value
            /\ fetchFailed' = IF outcome = "ok" /\ second = "ok" THEN fetchFailed
                              ELSE fetchFailed \cup {"coverage"}
    /\ modalPc' = "stats"
    /\ UNCHANGED <<isOpen, nodeData, featureData, modalLoading, bugs, docs,
                   testStats, testCases, hasErrors, called, scorerVars, overviewVars, unitVars, hookVars, laterVars>>

\* allureService.getTestStats settles
ModalTestStatsSettle ==
    /\ modalPc = "stats"
    /\ \E outcome \in Outcomes(net) :
        LET got == getTestStats(testService, outcome, commonData.product,
                       commonData.section, commonData.feature)
        IN  /\ testStats' = IF got.rejected THEN NullStats ELSE got.value
            /\ fetchFailed' = IF outcome = "ok" THEN fetchFailed
                              ELSE fetchFailed \cup {"stats"}
    /\ modalPc' = "cases"
    /\ UNCHANGED <<isOpen, nodeData, featureData, modalLoading, bugs, docs,
                   testCoverage, testCases, hasErrors, called, scorerVars, overviewVars, unitVars, hookVars, laterVars>>

\* allureService.getTestCases settles, and the finally block runs
TestCasesSettle ==
    /\ modalPc = "cases"
    /\ \E outcome \in Outcomes(net) :
        LET got == getTestCases(testService, outcome, commonData.product,
                       commonData.section, commonData.feature)
        IN  /\ testCases' = IF got.rejected THEN <<>> ELSE got.value
            /\ fetchFailed' = IF outcome = "ok" THEN fetchFailed
                              ELSE fetchFailed \cup {"cases"}
    /\ modalLoading' = FALSE
    /\ modalPc' = "done"
    /\ UNCHANGED <<isOpen, nodeData, featureData, bugs, docs, testCoverage,
                   testStats, hasErrors, called, scorerVars, overviewVars, unitVars, hookVars, laterVars>>

\* the screens a details modal is opened for
ModalScreens == PoolScreens \cup {Screen("Home", Some("a"), Undefined, Undefined)}

\* the features a details modal is opened for
ModalFeatures ==
    {FeatureDataOf(ListItem(screen, bugOutcome, testOutcome)) :
        screen \in PoolScreens, bugOutcome \in {"ok", "throw"},
        testOutcome \in {"ok", "throw"}}

InitModal ==
    /\ \/ nodeData \in {Some(screen) : screen \in ModalScreens} /\ featureData = Undefined
       \/ nodeData = Undefined /\ featureData \in {Some(item) : item \in ModalFeatures}
    /\ net \in {"up", "flaky", "down"}
    /\ bugService \in {"RealSupabaseService", "SupabaseService"}
    /\ testService \in {"RealAllureService", "AllureService"}
    /\ isOpen = FALSE
    /\ modalPc = "closed"
    /\ modalLoading = FALSE
    /\ bugs = <<>>
    /\ docs = <<>>
    /\ testCoverage = NullCoverage
    /\ testStats = NullStats
    /\ testCases = <<>>
    /\ hasErrors = FALSE
    /\ fetchFailed = {}
    /\ nodes = <<>>
    /\ featureMap = <<>>
    /\ featureRiskData = <<>>
    /\ loading = TRUE
    /\ error = "null"
    /\ runs = <<>>
    /\ called = FALSE
    /\ ScorerIdle
    /\ UnitIdle
    /\ HookIdle
    /\ LaterIdle

NextModal ==
    \/ OpenModal
    \/ BugReportsSettle
    \/ ProductDocsSettle
    \/ TestCoverageSettle
    \/ ModalTestStatsSettle
    \/ TestCasesSettle

\* one details modal, opened once, under every environment
SpecModal == InitModal /\ [][NextModal]_vars

\* ---------------------------------------------------------------- useQualityMetrics
\* RealSupabaseService.getBugCount: the rows of the product whose
\* statusCategory is open or new, 0 on an error and on an exception
RealGetBugCount(outcome, product, section, feature) ==
    LET rows == FilterByTriple(StoredBugRows, product, section, feature)
    IN  IF outcome = "ok"
        THEN Resolved(Cardinality({r \in 1..Len(rows) :
                                      rows[r].statusCategory \in {"open", "new"}}))
        ELSE Resolved(0)

\* supabaseService.getBugCount(...) on the injected service
getBugCount(service, outcome, product, section, feature) ==
    IF service = "RealSupabaseService" \/ outcome = "ok"
    THEN RealGetBugCount(outcome, product, section, feature)
    ELSE Rejected

\* QualityServiceImpl.calculateRiskLevel, the score in tenths
qualityCalculateRiskLevel(bugCount, testCount) ==
    LET bugVolumeScore == Min(bugCount * 3, 30)
        severityScore == bugCount * 6
        bugRiskScore == bugVolumeScore + severityScore
        testCoverageRisk ==
            IF testCount = 0 THEN 30
            ELSE IF testCount <= 5 THEN 20
            ELSE IF testCount <= 10 THEN 10
            ELSE 0
        riskScore == bugRiskScore * 7 + testCoverageRisk * 3
    IN  IF riskScore <= 200 THEN "low"
        ELSE IF riskScore <= 400 THEN "medium"
        ELSE "high"

\* QualityServiceImpl.getQualityMetrics: getTestStats, then getBugCount; a
\* rejection of either rejects the whole call
getQualityMetrics(outcome, second, product, section, feature) ==
    LET stats == getTestStats(testService, outcome, product, section, feature)
        count == getBugCount(bugService, second, product, section, feature)
    IN  IF stats.rejected \/ count.rejected THEN Rejected
        ELSE Resolved([bugCount |-> count.value,
                       testCount |-> TotalOrZero(stats.value),
                       riskLevel |-> qualityCalculateRiskLevel(count.value,
                                         TotalOrZero(stats.value)),
                       feature |-> feature])

\* an effect run: its closure's arguments and mounted flag, and whether its
\* fetch is in flight, has written the state, or was dropped by the guard
EffectRun(props) == [props |-> props, mounted |-> TRUE, pc |-> "inflight"]

\* the effect's cleanup function: mounted = false in the latest closure
Cleanup(runList) ==
    IF runList = <<>> THEN runList
    ELSE [runList EXCEPT ![Len(runList)].mounted = FALSE]

\* effect run k is no longer the one of the current arguments of a mounted
\* component
Superseded(k) == k # Len(fetches) \/ hookPhase # "mounted"

\* the component mounts: the effect runs fetchMetrics up to its await
HookMount ==
    /\ hookPhase = "initial"
    /\ hookPhase' = "mounted"
    /\ fetches' = Append(fetches, EffectRun(hookProps))
    /\ hookLoading' = TRUE
    /\ hookError' = "null"
    /\ UNCHANGED <<hookProps, metrics, staleWrite, called, scorerVars, overviewVars,
                   modalVars, unitVars, laterVars>>

\* variant: the effect returns no cleanup function
HookArgsChangeNoCleanup(props) ==
    /\ hookPhase = "mounted"
    /\ props # hookProps
    /\ Len(fetches) < MaxFetches
    /\ hookProps' = props
    /\ fetches' = Append(fetches, EffectRun(props))
    /\ hookLoading' = TRUE
    /\ hookError' = "null"
    /\ UNCHANGED <<hookPhase, metrics, staleWrite, called, scorerVars, overviewVars,
                   modalVars, unitVars, laterVars>>

\* product, section or feature changes: the cleanup of the previous effect
\* run, then the effect again
HookArgsChange(props) ==
    /\ hookPhase = "mounted"
    /\ props # hookProps
    /\ Len(fetches) < MaxFetches
    /\ hookProps' = props
    /\ fetches' = Append(Cleanup(fetches), EffectRun(props))
    /\ hookLoading' = TRUE
    /\ hookError' = "null"
    /\ UNCHANGED <<hookPhase, metrics, staleWrite, called, scorerVars, overviewVars,
                   modalVars, unitVars, laterVars>>

\* the component unmounts: the cleanup of the latest effect run
HookUnmount ==
    /\ hookPhase = "mounted"
    /\ hookPhase' = "unmounted"
    /\ fetches' = Cleanup(fetches)
    /\ UNCHANGED <<hookProps, metrics, hookLoading, hookError, staleWrite, called,
                   scorerVars, overviewVars, modalVars, unitVars, laterVars>>

\* qualityService.getQualityMetrics of effect run k settles: try, catch and
\* finally, each behind if (mounted)
MetricsSettle(k) ==
    /\ fetches[k].pc = "inflight"
    /\ \E outcome, second \in Outcomes(net) :
        LET run == fetches[k]
            got == getQualityMetrics(outcome, second, Some(run.props.product),
                       run.props.section, run.props.feature)
        IN  IF run.mounted
            THEN /\ metrics' = IF got.rejected THEN metrics ELSE Some(got.value)
                 /\ hookError' = IF got.rejected THEN "Failed to fetch quality metrics"
                                 ELSE hookError
                 /\ hookLoading' = FALSE
                 /\ fetches' = [fetches EXCEPT ![k].pc = "written"]
                 /\ staleWrite' = (staleWrite \/ Superseded(k))
            ELSE /\ fetches' = [fetches EXCEPT ![k].pc = "dropped"]
                 /\ UNCHANGED <<metrics, hookError, hookLoading, staleWrite>>
    /\ UNCHANGED <<hookProps, hookPhase, called, scorerVars, overviewVars, modalVars,
                   unitVars, laterVars>>

\* the arguments the hook is called with
HookInputs ==
    {[product |-> "a", section |-> Some("c"), feature |-> feature] :
        feature \in {Some("f"), Some("g"), Some("h"), Undefined}}

InitHook ==
    /\ hookProps \in HookInputs
    /\ net \in {"up", "flaky", "down"}
    /\ bugService \in {"RealSupabaseService", "SupabaseService"}
    /\ testService \in {"RealAllureService", "AllureService"}
    /\ hookPhase = "initial"
    /\ metrics = <<>>
    /\ hookLoading = TRUE
    /\ hookError = "null"
    /\ fetches = <<>>
    /\ staleWrite = FALSE
    /\ nodes = <<>>
    /\ featureMap = <<>>
    /\ featureRiskData = <<>>
    /\ loading = TRUE
    /\ error = "null"
    /\ runs = <<>>
    /\ called = FALSE
    /\ ScorerIdle
    /\ ModalIdle
    /\ UnitIdle
    /\ LaterIdle

NextHook ==
    \/ HookMount
    \/ \E props \in HookInputs : HookArgsChange(props)
    \/ HookUnmount
    \/ \E k \in 1..Len(fetches) : MetricsSettle(k)

\* one component using useQualityMetrics, under every environment
SpecHook == InitHook /\ [][NextHook]_vars

\* ---------------------------------------------------------------- calculateRiskLevel
\* QualityServiceImpl.calculateRiskLevel beside the graph page's getRiskLevel of
\* calculateRiskScore for as many medium bugs on one screen
InitQuality ==
    /\ bugCountArg \in 0..MaxRepeat
    /\ testCountArg \in 0..MaxTests
    /\ called = FALSE
    /\ qualityLevel = NoQualityLevel
    /\ breakdown = NoBreakdown
    /\ openBugsArg = <<>>
    /\ screenCountArg = 1
    /\ riskScoreArg = 0
    /\ listScore = 0
    /\ pageScore = 0
    /\ modalParts = NoParts
    /\ levels = NoLevels
    /\ OverviewIdle
    /\ ModalIdle
    /\ UnitIdle
    /\ HookIdle
    /\ RestIdle

QualityCall ==
    /\ ~called
    /\ called' = TRUE
    /\ pageScore' = pageCalculateRiskScore(RepeatBug("medium", bugCountArg),
                                           testCountArg, 1)
    /\ qualityLevel' = [quality |-> qualityCalculateRiskLevel(bugCountArg, testCountArg),
                        composite |-> pageGetRiskLevel(pageScore')]
    /\ UNCHANGED <<openBugsArg, testCountArg, screenCountArg, riskScoreArg, listScore,
                   modalParts, levels, overviewVars, modalVars, unitVars, hookVars,
                   breakdown, bugCountArg, restVars>>

NextQuality == QualityCall

SpecQuality == InitQuality /\ [][NextQuality]_vars

\* ---------------------------------------------------------------- getBugReportsByStatus, twice
\* the query of RealSupabaseService.getBugReportsByStatus on given rows
RealByStatusQuery(rows, statusCategory, feature) ==
    LET found == FilterRows(rows, statusCategory, feature)
    IN  [r \in 1..Len(found) |-> convertRowToBugReport(found[r])]

\* MockSupabaseService.getBugReportsByStatus on the list it holds
RECURSIVE MockGetBugReportsByStatus(_, _, _, _, _)
MockGetBugReportsByStatus(list, product, statusCategory, section, feature) ==
    IF list = <<>> THEN <<>>
    ELSE LET bug == Head(list)
             rest == MockGetBugReportsByStatus(Tail(list), product, statusCategory,
                                               section, feature)
         IN  IF /\ bug.product = product
                /\ (Truthy(section) => bug.section = section[1])
                /\ (Truthy(feature) => bug.feature = feature[1])
                /\ bug.statusCategory = statusCategory
             THEN <<bug>> \o rest ELSE rest

\* the rows a store may hold
RowPool ==
    {BugRow("r", product, section, feature, Some("Bug"), Some("Open"), category) :
        product \in {"a", "b"}, section \in {"c", "d"}, feature \in {"f", "g"},
        category \in {"open", "closed"}}

ByStatusQueries ==
    [product : {"a", "b"}, statusCategory : {"open", "closed"},
     section : {Undefined, Some("c"), Some("d")},
     feature : {Undefined, Some("f"), Some("g")}]

InitByStatus ==
    /\ storeArg \in SeqsUpTo(RowPool, MaxStoreRows)
    /\ queryArg \in ByStatusQueries
    /\ realAnswer = <<>>
    /\ mockAnswer = <<>>
    /\ called = FALSE
    /\ ScorerIdle
    /\ OverviewIdle
    /\ ModalIdle
    /\ UnitIdle
    /\ HookIdle
    /\ DisplayIdle
    /\ IdleBesidesCompare

\* both implementations answer the same call on the same bugs
ByStatusCall ==
    /\ ~called
    /\ called' = TRUE
    /\ realAnswer' = RealByStatusQuery(storeArg, queryArg.statusCategory,
                                       queryArg.feature)
    /\ mockAnswer' = MockGetBugReportsByStatus(
                         [r \in 1..Len(storeArg) |-> convertRowToBugReport(storeArg[r])],
                         queryArg.product, queryArg.statusCategory, queryArg.section,
                         queryArg.feature)
    /\ UNCHANGED <<scorerVars, overviewVars, modalVars, unitVars, hookVars,
                   displayVars, storeArg, queryArg, besidesCompare>>

NextByStatus == ByStatusCall

SpecByStatus == InitByStatus /\ [][NextByStatus]_vars

\* ---------------------------------------------------------------- NodeDetailsPanel
\* GraphPage.onNodeClick: the clicked node becomes the panel's nodeData
NodeClick(screen) ==
    /\ selectedNode' = Some(screen)
    /\ UNCHANGED <<called, scorerVars, overviewVars, modalVars, unitVars, hookVars,
                   displayVars, besidesPanel, showBugDetails, panelOpenBugs,
                   panelClosedBugs, loadingBugs, bugLoads, bugsFetchedFor>>

\* GraphPage.onClosePanel and onPaneClick
ClosePanel ==
    /\ selectedNode # Undefined
    /\ selectedNode' = Undefined
    /\ UNCHANGED <<called, scorerVars, overviewVars, modalVars, unitVars, hookVars,
                   displayVars, besidesPanel, showBugDetails, panelOpenBugs,
                   panelClosedBugs, loadingBugs, bugLoads, bugsFetchedFor>>

\* NodeDetailsPanel.handleBugCountClick: loadBugDetails up to its await when
\* the details are hidden, then the toggle
BugCountClick ==
    /\ selectedNode # Undefined
    /\ IF ~showBugDetails /\ Truthy(selectedNode[1].feature)
       THEN /\ Len(bugLoads) < MaxBugLoads
            /\ loadingBugs' = TRUE
            /\ bugLoads' = Append(bugLoads, [node |-> selectedNode[1], pending |-> TRUE])
       ELSE UNCHANGED <<loadingBugs, bugLoads>>
    /\ showBugDetails' = ~showBugDetails
    /\ UNCHANGED <<called, scorerVars, overviewVars, modalVars, unitVars, hookVars,
                   displayVars, besidesPanel, selectedNode, panelOpenBugs,
                   panelClosedBugs, bugsFetchedFor>>

\* loadBugDetails behind its await: Promise.all of the two fetches settles;
\* both lists are stored, or the catch block logs; finally loadingBugs is reset
BugLoadSettle(k) ==
    /\ bugLoads[k].pending
    /\ bugLoads' = [bugLoads EXCEPT ![k].pending = FALSE]
    /\ \E openOutcome \in Outcomes(net), closedOutcome \in Outcomes(net) :
        LET node == bugLoads[k].node
            open == getBugReportsByStatus(bugService, openOutcome, node.product,
                        "open", node.section, node.feature)
            closed == getBugReportsByStatus(bugService, closedOutcome, node.product,
                          "closed", node.section, node.feature)
        IN  IF open.rejected \/ closed.rejected
            THEN UNCHANGED <<panelOpenBugs, panelClosedBugs, bugsFetchedFor>>
            ELSE /\ panelOpenBugs' = open.value
                 /\ panelClosedBugs' = closed.value
                 /\ bugsFetchedFor' = Some(node)
    /\ loadingBugs' = FALSE
    /\ UNCHANGED <<called, scorerVars, overviewVars, modalVars, unitVars, hookVars,
                   displayVars, besidesPanel, selectedNode, showBugDetails>>

\* the nodes of the graph a user can click
PanelScreens == ModalScreens

InitPanel ==
    /\ PanelIdle
    /\ net \in {"up", "flaky", "down"}
    /\ bugService \in {"RealSupabaseService", "SupabaseService"}
    /\ testService = "RealAllureService"
    /\ nodes = <<>>
    /\ featureMap = <<>>
    /\ featureRiskData = <<>>
    /\ loading = TRUE
    /\ error = "null"
    /\ runs = <<>>
    /\ called = FALSE
    /\ ScorerIdle
    /\ ModalIdle
    /\ UnitIdle
    /\ HookIdle
    /\ DisplayIdle
    /\ IdleBesidesPanel

NextPanel ==
    \/ \E screen \in PanelScreens : NodeClick(screen)
    \/ ClosePanel
    \/ BugCountClick
    \/ \E k \in 1..Len(bugLoads) : BugLoadSettle(k)

SpecPanel == InitPanel /\ [][NextPanel]_vars

\* ---------------------------------------------------------------- useBulkQualityMetrics
\* QualityServiceImpl.getBulkQualityMetrics: Promise.all over getQualityMetrics
\* of every feature; one rejection rejects the whole call
getBulkQualityMetrics(outcomes, features) ==
    LET each == [f \in 1..Len(features) |->
                    getQualityMetrics(outcomes[f][1], outcomes[f][2],
                        Some(features[f].product), features[f].section,
                        features[f].feature)]
    IN  IF \E f \in 1..Len(features) : each[f].rejected THEN Rejected
        ELSE Resolved([f \in 1..Len(features) |-> each[f].value])

\* the component mounts: the effect runs, and calls fetchBulkMetrics up to its
\* await only for a non-empty list
BulkMount ==
    /\ bulkPhase = "initial"
    /\ bulkPhase' = "mounted"
    /\ IF Len(bulkFeatures) > 0
       THEN /\ bulkLoading' = TRUE
            /\ bulkError' = "null"
            /\ bulkFetch' = [pc |-> "inflight", mounted |-> TRUE]
       ELSE UNCHANGED <<bulkLoading, bulkError, bulkFetch>>
    /\ UNCHANGED <<called, scorerVars, overviewVars, modalVars, unitVars, hookVars,
                   displayVars, besidesBulk, bulkFeatures, bulkMetrics>>

\* the component unmounts: the effect's cleanup sets mounted = false
BulkUnmount ==
    /\ bulkPhase = "mounted"
    /\ bulkPhase' = "unmounted"
    /\ bulkFetch' = [bulkFetch EXCEPT !.mounted = FALSE]
    /\ UNCHANGED <<called, scorerVars, overviewVars, modalVars, unitVars, hookVars,
                   displayVars, besidesBulk, bulkFeatures, bulkMetrics, bulkLoading,
                   bulkError>>

\* fetchBulkMetrics behind its await: the bulk fetch resolves or rejects, and
\* the state is written only while mounted
BulkSettle ==
    /\ bulkFetch.pc = "inflight"
    /\ bulkFetch' = [bulkFetch EXCEPT !.pc = "settled"]
    /\ \E outcomes \in [1..Len(bulkFeatures) -> Outcomes(net) \X Outcomes(net)] :
        LET got == getBulkQualityMetrics(outcomes, bulkFeatures)
        IN  IF bulkFetch.mounted
            THEN /\ bulkMetrics' = IF got.rejected THEN bulkMetrics ELSE got.value
                 /\ bulkError' = IF got.rejected
                                 THEN "Failed to fetch bulk quality metrics"
                                 ELSE bulkError
                 /\ bulkLoading' = FALSE
            ELSE UNCHANGED <<bulkMetrics, bulkError, bulkLoading>>
    /\ UNCHANGED <<called, scorerVars, overviewVars, modalVars, unitVars, hookVars,
                   displayVars, besidesBulk, bulkFeatures, bulkPhase>>

\* the feature lists the hook is called with
BulkInputs == SeqsUpTo(HookInputs, MaxBulkFeatures)

InitBulk ==
    /\ bulkFeatures \in BulkInputs
    /\ bulkPhase = "initial"
    /\ bulkMetrics = <<>>
    /\ bulkLoading = TRUE
    /\ bulkError = "null"
    /\ bulkFetch = NoFetch
    /\ net \in {"up", "flaky", "down"}
    /\ bugService \in {"RealSupabaseService", "SupabaseService"}
    /\ testService \in {"RealAllureService", "AllureService"}
    /\ nodes = <<>>
    /\ featureMap = <<>>
    /\ featureRiskData = <<>>
    /\ loading = TRUE
    /\ error = "null"
    /\ runs = <<>>
    /\ called = FALSE
    /\ ScorerIdle
    /\ ModalIdle
    /\ UnitIdle
    /\ HookIdle
    /\ DisplayIdle
    /\ IdleBesidesBulk

NextBulk ==
    \/ BulkMount
    \/ BulkUnmount
    \/ BulkSettle

\* the component mounts and every started fetch settles; unmounting is
\* possible and never forced
SpecBulk ==
    /\ InitBulk
    /\ [][NextBulk]_vars
    /\ WF_vars(BulkMount)
    /\ WF_vars(BulkSettle)

\* ---------------------------------------------------------------- GraphPage
\* a node of /flow.json; qualityMetrics is Undefined or the snapshot
FlowNode(id, label, product, section, feature, qualityMetrics) ==
    [id |-> id, label |-> label, product |-> product, section |-> section,
     feature |-> feature, qualityMetrics |-> qualityMetrics]

\* the quality snapshot a node carries in /flow.json
JsonMetrics == Some([bugCount |-> 5, testCount |-> 0, riskLevel |-> "high",
                     lastUpdated |-> "json"])

\* node.data.qualityMetrics && node.data.product && node.data.section &&
\* node.data.feature
Eligible(node) ==
    /\ node.qualityMetrics # Undefined
    /\ Truthy(node.product)
    /\ Truthy(node.section)
    /\ Truthy(node.feature)

\* the map callbacks of calculateDynamicRiskLevels, each run up to its first
\* await or, for a node it skips, to its return
BeginNodeTasks(nodeList) ==
    [i \in 1..Len(nodeList) |->
        [pc |-> IF Eligible(nodeList[i]) THEN "bugs" ELSE "returned",
         openBugs |-> <<>>, stats |-> NullStats, threw |-> FALSE,
         result |-> nodeList[i]]]

\* the node the try block returns
Recomputed(node, openBugs, stats) ==
    LET testCount == pageTotalOrZero(stats)
        screenCount == 1
        riskScore == pageCalculateRiskScore(openBugs, testCount, screenCount)
        calculatedRiskLevel == pageGetRiskLevel(riskScore)
    IN  [node EXCEPT !.qualityMetrics =
            Some([bugCount |-> Len(openBugs), testCount |-> testCount,
                  riskLevel |-> calculatedRiskLevel, lastUpdated |-> "now"])]

\* variant: one try block around the whole Promise.all, so that a rejection
\* returns every node as it was
NodeCatchAll(tasks, i) ==
    [t \in 1..Len(tasks) |->
        IF t = i THEN [tasks[t] EXCEPT !.pc = "returned", !.threw = TRUE]
        ELSE [tasks[t] EXCEPT !.pc = "returned", !.result = flowJson.nodes[t]]]

\* the catch block of one map callback: return node
NodeCatch(tasks, i) ==
    [tasks EXCEPT ![i].pc = "returned", ![i].threw = TRUE]

\* the filter callback of filteredNodes
PassesFilters(node, f) ==
    IF f.products = {} /\ f.sections = {} /\ f.riskLevels = {} THEN TRUE
    ELSE IF f.products # {} /\ (~Truthy(node.product) \/ node.product[1] \notin f.products)
    THEN FALSE
    ELSE IF f.sections # {} /\ (~Truthy(node.section) \/ node.section[1] \notin f.sections)
    THEN FALSE
    ELSE IF f.riskLevels # {}
            /\ (node.qualityMetrics = Undefined
                \/ node.qualityMetrics[1].riskLevel \notin f.riskLevels)
    THEN FALSE
    ELSE TRUE

\* Array.prototype.filter on the nodes of flowData
RECURSIVE FilterNodes(_, _)
FilterNodes(nodeList, f) ==
    IF nodeList = <<>> THEN <<>>
    ELSE IF PassesFilters(Head(nodeList), f)
         THEN <<Head(nodeList)>> \o FilterNodes(Tail(nodeList), f)
         ELSE FilterNodes(Tail(nodeList), f)

\* the filteredNodes memo and, from it, initialNodes
InitialNodes(data, f) ==
    IF data = Undefined THEN <<>> ELSE FilterNodes(data[1].nodes, f)

\* Array.prototype.filter on the edges: both ends among the visible ids
RECURSIVE FilterEdges(_, _)
FilterEdges(edgeList, visibleNodeIds) ==
    IF edgeList = <<>> THEN <<>>
    ELSE IF Head(edgeList).source \in visibleNodeIds
            /\ Head(edgeList).target \in visibleNodeIds
         THEN <<Head(edgeList)>> \o FilterEdges(Tail(edgeList), visibleNodeIds)
         ELSE FilterEdges(Tail(edgeList), visibleNodeIds)

\* the initialEdges memo
InitialEdges(data, f) ==
    IF data = Undefined THEN <<>>
    ELSE LET visible == InitialNodes(data, f)
             visibleNodeIds == {visible[n].id : n \in 1..Len(visible)}
         IN  FilterEdges(data[1].edges, visibleNodeIds)

\* the effect on [initialNodes, initialEdges]: setNodes and setEdges, each
\* only for a non-empty array
SyncReactFlow(data, f) ==
    /\ rfNodes' = IF Len(InitialNodes(data, f)) > 0 THEN InitialNodes(data, f)
                  ELSE rfNodes
    /\ rfEdges' = IF Len(InitialEdges(data, f)) > 0 THEN InitialEdges(data, f)
                  ELSE rfEdges

\* loadFlowData up to the end of the map: the fetch of /flow.json settles;
\* a failure goes to the catch and finally blocks
FlowJsonSettle ==
    /\ pagePc = "fetch"
    /\ \E outcome \in Outcomes(net) :
        IF outcome = "ok"
        THEN /\ pagePc' = "risk"
             /\ nodeTasks' = BeginNodeTasks(flowJson.nodes)
        ELSE /\ pagePc' = "error"
             /\ UNCHANGED nodeTasks
    /\ UNCHANGED <<called, scorerVars, overviewVars, modalVars, unitVars, hookVars,
                   displayVars, besidesPage, flowJson, flowData, filters, rfNodes,
                   rfEdges>>

\* the map callback of node i behind its first await
NodeBugsSettle(i) ==
    /\ pagePc = "risk"
    /\ nodeTasks[i].pc = "bugs"
    /\ \E outcome \in Outcomes(net) :
        LET node == flowJson.nodes[i]
            got == getBugReportsByStatus(bugService, outcome, node.product, "open",
                       node.section, node.feature)
        IN  nodeTasks' = IF got.rejected THEN NodeCatch(nodeTasks, i)
                         ELSE [nodeTasks EXCEPT ![i].pc = "tests",
                                                ![i].openBugs = got.value]
    /\ UNCHANGED <<called, scorerVars, overviewVars, modalVars, unitVars, hookVars,
                   displayVars, besidesPage, flowJson, pagePc, flowData, filters,
                   rfNodes, rfEdges>>

\* the map callback of node i behind its second await, to its return
NodeTestStatsSettle(i) ==
    /\ pagePc = "risk"
    /\ nodeTasks[i].pc = "tests"
    /\ \E outcome \in Outcomes(net) :
        LET node == flowJson.nodes[i]
            got == getTestStats(testService, outcome, node.product, node.section,
                       node.feature)
        IN  nodeTasks' = IF got.rejected THEN NodeCatch(nodeTasks, i)
                         ELSE [nodeTasks EXCEPT
                                 ![i].pc = "returned",
                                 ![i].stats = got.value,
                                 ![i].result = Recomputed(node, nodeTasks[i].openBugs,
                                                          got.value)]
    /\ UNCHANGED <<called, scorerVars, overviewVars, modalVars, unitVars, hookVars,
                   displayVars, besidesPage, flowJson, pagePc, flowData, filters,
                   rfNodes, rfEdges>>

\* loadFlowData behind `await calculateDynamicRiskLevels`: setFlowData,
\* setLoading(false), and the effect that follows the render
SetFlowData ==
    /\ pagePc = "risk"
    /\ \A i \in 1..Len(nodeTasks) : nodeTasks[i].pc = "returned"
    /\ pagePc' = "loaded"
    /\ flowData' = Some([nodes |-> [i \in 1..Len(nodeTasks) |-> nodeTasks[i].result],
                         edges |-> flowJson.edges])
    /\ SyncReactFlow(flowData', filters)
    /\ UNCHANGED <<called, scorerVars, overviewVars, modalVars, unitVars, hookVars,
                   displayVars, besidesPage, flowJson, nodeTasks, filters>>

\* handleFilterChange, and the effect that follows the render
handleFilterChange(newFilters) ==
    /\ pagePc = "loaded"
    /\ newFilters # filters
    /\ filters' = newFilters
    /\ SyncReactFlow(flowData, newFilters)
    /\ UNCHANGED <<called, scorerVars, overviewVars, modalVars, unitVars, hookVars,
                   displayVars, besidesPage, flowJson, pagePc, nodeTasks, flowData>>

\* the node data /flow.json may hold
PagePool ==
    { <<"Cart", Some("a"), Some("c"), Some("f"), JsonMetrics>>,
      <<"Pay", Some("b"), Some("c"), Some("k"), JsonMetrics>>,
      <<"Refund", Some("b"), Some("c"), Some("k"), JsonMetrics>>,
      <<"Home", Some("a"), Undefined, Undefined, JsonMetrics>>,
      <<"Guide", Some("a"), Some("c"), Some("g"), Undefined>> }

NodeId(i) == CASE i = 1 -> "n1" [] i = 2 -> "n2" [] i = 3 -> "n3" [] OTHER -> "n4"

\* node lists of at most MaxPageNodes nodes, their ids given by position
PageNodeLists ==
    {[i \in 1..Len(list) |->
        FlowNode(NodeId(i), list[i][1], list[i][2], list[i][3], list[i][4], list[i][5])] :
     list \in SeqsUpTo(PagePool, MaxPageNodes)}

\* the edge lists over n nodes: none, or the chain n1 -> n2 -> ...
PageEdgeLists(n) ==
    {<<>>} \cup
    (IF n >= 2
     THEN {[e \in 1..(n - 1) |-> [id |-> e, source |-> NodeId(e), target |-> NodeId(e + 1)]]}
     ELSE {})

\* the filters the filter panel can produce
FilterChoices ==
    { NoFilters,
      [products |-> {"a"}, sections |-> {}, riskLevels |-> {}],
      [products |-> {"b"}, sections |-> {}, riskLevels |-> {}],
      [products |-> {}, sections |-> {"c"}, riskLevels |-> {}],
      [products |-> {}, sections |-> {}, riskLevels |-> {"low"}],
      [products |-> {}, sections |-> {}, riskLevels |-> {"high"}],
      [products |-> {"a"}, sections |-> {"c"}, riskLevels |-> {"low", "medium"}] }

InitPage ==
    /\ \E list \in PageNodeLists :
         \E edgeList \in PageEdgeLists(Len(list)) :
            flowJson = [nodes |-> list, edges |-> edgeList]
    /\ pagePc = "fetch"
    /\ nodeTasks = <<>>
    /\ flowData = Undefined
    /\ filters = NoFilters
    /\ rfNodes = <<>>
    /\ rfEdges = <<>>
    /\ net \in {"up", "flaky"}
    /\ \/ bugService = "RealSupabaseService" /\ testService = "RealAllureService"
       \/ bugService = "SupabaseService" /\ testService = "AllureService"
    /\ nodes = <<>>
    /\ featureMap = <<>>
    /\ featureRiskData = <<>>
    /\ loading = TRUE
    /\ error = "null"
    /\ runs = <<>>
    /\ called = FALSE
    /\ ScorerIdle
    /\ ModalIdle
    /\ UnitIdle
    /\ HookIdle
    /\ DisplayIdle
    /\ IdleBesidesPage

NextPage ==
    \/ FlowJsonSettle
    \/ \E i \in 1..Len(nodeTasks) : NodeBugsSettle(i)
    \/ \E i \in 1..Len(nodeTasks) : NodeTestStatsSettle(i)
    \/ SetFlowData
    \/ \E newFilters \in FilterChoices : handleFilterChange(newFilters)

SpecPage == InitPage /\ [][NextPage]_vars


\* ================================================================ claims
\* the scoring rule as the specification states it, by counting bugs per severity
CountSeverity(openBugs, sev) ==
    Cardinality({i \in 1..Len(openBugs) : openBugs[i].severity = sev})

StatedSeveritySum(openBugs) ==
      20 * CountSeverity(openBugs, "critical")
    + 12 * CountSeverity(openBugs, "high")
    + 6 * CountSeverity(openBugs, "medium")
    + 2 * CountSeverity(openBugs, "low")
    + 6 * Cardinality({i \in 1..Len(openBugs) :
            openBugs[i].severity \notin {"critical", "high", "medium", "low"}})

StatedCoverageRisk(testCount) ==
    CASE testCount = 0 -> 30
      [] testCount \in 1..5 -> 20
      [] testCount \in 6..10 -> 10
      [] testCount >= 11 -> 0

StatedComplexityRisk(screenCount) ==
    CASE screenCount = 1 -> 0
      [] screenCount = 2 -> 5
      [] screenCount \in 3..4 -> 10
      [] screenCount >= 5 -> 15

StatedScore(openBugs, testCount, screenCount) ==
      50 * (Min(3 * Len(openBugs), 30) + StatedSeveritySum(openBugs))
    + 40 * StatedCoverageRisk(testCount)
    + 10 * StatedComplexityRisk(screenCount)

LevelRank(level) == CASE level = "low" -> 0 [] level = "medium" -> 1 [] level = "high" -> 2

StatedLevel(score) ==
    CASE score <= 2000 -> "low"
      [] score > 2000 /\ score <= 4000 -> "medium"
      [] score > 4000 -> "high"

\* C2: getRiskLevel (all three copies) gives low up to 20, medium above 20 up
\* to 40 and high above 40; 20.0 is low, 20.01 medium, 40.0 medium, 40.01
\* high; and no lower score gets a higher level.
C2_LevelThresholds ==
    called =>
        /\ levels.list = StatedLevel(riskScoreArg)
        /\ levels.page = StatedLevel(riskScoreArg)
        /\ levels.modal = StatedLevel(riskScoreArg)
        /\ riskScoreArg = 2000 => levels.list = "low"
        /\ riskScoreArg = 2001 => levels.list = "medium"
        /\ riskScoreArg = 4000 => levels.list = "medium"
        /\ riskScoreArg = 4001 => levels.list = "high"
        /\ \A lower \in 0..riskScoreArg :
              LevelRank(getRiskLevel(lower)) <= LevelRank(levels.list)

\* the score 40.01 has been classified
C2_Witness == called /\ riskScoreArg = 4001 /\ levels.list = "high"

\* C8: for the same open bugs, test count and screen count the list view, the
\* graph page and the modal's weighted sub-scores give one composite score
\* and one risk level.
C8_CallSitesAgree ==
    called =>
        LET w == ModalWeighted(modalParts)
        IN  /\ listScore = pageScore
            /\ w.bug + w.coverage + w.complexity = listScore
            /\ levels.list = levels.page
            /\ levels.list = levels.modal

\* a scored feature with bugs and more than one screen, above the low level
C8_Witness ==
    /\ called
    /\ Len(openBugsArg) > 1
    /\ screenCountArg > 1
    /\ levels.modal = "high"

\* how often the node labelled l sits in the buckets of a Map
Occurrences(map, l) ==
    Cardinality({<<e, k>> \in (1..Len(map)) \X (1..MaxGroupNodes + 1) :
                    k <= Len(map[e].screens) /\ map[e].screens[k].label = l})

AllThreePresent(node) ==
    node.product # Undefined /\ node.section # Undefined /\ node.feature # Undefined

\* C3: a screen is put into a bucket if and only if its product, section and
\* feature are all present: such a screen sits in exactly one bucket exactly
\* once, and a screen missing any of the three sits in no bucket.
C3_GroupedIffAllPresent ==
    called =>
        \A i \in 1..Len(nodes) :
            Occurrences(featureMap, nodes[i].label)
                = IF AllThreePresent(nodes[i]) THEN 1 ELSE 0

\* C4: in every bucket all screens have the same (product, section, feature),
\* also for identifiers that contain ':'.
C4_BucketSharesTriple ==
    called =>
        \A e \in 1..Len(featureMap) :
            \A j, k \in 1..Len(featureMap[e].screens) :
                LET a == featureMap[e].screens[j]
                    b == featureMap[e].screens[k]
                IN  a.product = b.product /\ a.section = b.section
                        /\ a.feature = b.feature

RunEnded(run) == run.pc \in {"done", "failed"}

FirstSeen(item) == CHOOSE i \in 1..Len(nodes) : nodes[i] = item.screens[1]

\* C6: the stored list is ordered by risk score from highest to lowest, and
\* buckets with equal scores keep the order in which their first screen was
\* met in the input.
C6_SortedStable ==
    \A r \in 1..Len(runs) :
        runs[r].pc = "done" =>
            /\ Len(featureRiskData) = Len(runs[r].featureMap)
            /\ \A j, k \in 1..Len(featureRiskData) :
                j < k =>
                    /\ featureRiskData[j].riskScore >= featureRiskData[k].riskScore
                    /\ featureRiskData[j].riskScore = featureRiskData[k].riskScore
                        => FirstSeen(featureRiskData[j]) < FirstSeen(featureRiskData[k])

\* three stored buckets, the first two tied, the input's first bucket last
C6_Witness ==
    /\ Len(runs) = 1
    /\ runs[1].pc = "done"
    /\ Len(featureRiskData) = 3
    /\ featureRiskData[1].riskScore = featureRiskData[2].riskScore
    /\ featureRiskData[2].riskScore > featureRiskData[3].riskScore
    /\ featureRiskData[3].screens[1] = nodes[1]

\* C7: once an earlier and a newer run have both finished, the stored list
\* is the newer run's, whatever the order in which the fetches completed.
C7_LatestRunWins ==
    (Len(runs) >= 2 /\ \A r \in 1..Len(runs) : RunEnded(runs[r]))
        => featureRiskData = runs[Len(runs)].result

\* the features the nodes name
FeaturesOf(nodeList) == {nodeList[i].feature : i \in 1..Len(nodeList)}

\* C9: when every Supabase query and every Allure request fails inside the
\* adapters, a run ends without an error and stores one bucket per feature,
\* each with empty bug lists, test count 0 and score 0.4 x 30 + 0.1 x
\* complexity risk, which is low.
C9_TotalOutageDegrades ==
    (/\ net = "down"
     /\ bugService = "RealSupabaseService"
     /\ testService = "RealAllureService") =>
        /\ error = "null"
        /\ \A r \in 1..Len(runs) :
            /\ runs[r].pc # "failed"
            /\ runs[r].pc = "done" =>
                /\ ~loading
                /\ Len(featureRiskData) = Cardinality(FeaturesOf(nodes))
                /\ \A k \in 1..Len(featureRiskData) :
                    LET item == featureRiskData[k]
                    IN  /\ item.openBugs = <<>>
                        /\ item.closedBugs = <<>>
                        /\ item.testCount = 0
                        /\ item.riskScore
                            = 40 * 30 + 10 * StatedComplexityRisk(Len(item.screens))
                        /\ getRiskLevel(item.riskScore) = "low"

\* a finished run under a total outage: two features, one of two screens
C9_Witness ==
    /\ net = "down"
    /\ bugService = "RealSupabaseService"
    /\ testService = "RealAllureService"
    /\ Len(runs) = 1
    /\ runs[1].pc = "done"
    /\ Len(featureRiskData) = 2
    /\ \E k \in 1..2 : Len(featureRiskData[k].screens) = 2

\* C10: when the details modal has finished loading and a provider fetch of
\* that load failed, the advisory flag hasErrors is set.
C10_FailureSetsHasErrors ==
    (modalPc = "done" /\ fetchFailed # {}) => hasErrors

\* the lower-cased indicators the normalization recognizes
RecognizedIssueTypes == {"security", "critical", "bug", "high", "medium", "low"}
RecognizedStatuses ==
    {"open", "new", "in progress", "in-progress", "working", "resolved", "fixed",
     "closed", "not a bug", "done"}

\* C11: a row with a missing or unrecognized issue type is normalized to
\* severity medium, a row with a missing or unrecognized status to status
\* open, and every row is normalized to a report.
C11_DefaultsMediumAndOpen ==
    called =>
        /\ bugReport # NoReport
        /\ (\/ rowArg[1].issueType = Undefined
            \/ ToLowerCase(rowArg[1].issueType[1]) \notin RecognizedIssueTypes)
                => bugReport[1].severity = "medium"
        /\ (\/ rowArg[1].status = Undefined
            \/ ToLowerCase(rowArg[1].status[1]) \notin RecognizedStatuses)
                => bugReport[1].status = "open"

\* C12: for a null answer of the test provider both call sites use test
\* count 0 and coverage risk 30; for any other answer both use exactly its
\* total, whatever its passed, failed and skipped counts are.
C12_NullStatsCountZero ==
    called =>
        LET expected == IF statsArg.isNull THEN 0 ELSE statsArg.total
        IN  /\ testCounts.list = expected
            /\ testCounts.page = expected
            /\ testCounts.listScore = 40 * StatedCoverageRisk(expected)
            /\ testCounts.pageScore = 40 * StatedCoverageRisk(expected)
            /\ statsArg.isNull => testCounts.listScore = 40 * 30

\* a null answer has been turned into test count 0 at both call sites
C12_Witness ==
    /\ called
    /\ statsArg.isNull
    /\ testCounts.list = 0
    /\ testCounts.page = 0
    /\ testCounts.pageScore = 1200

\* list with item put behind its first i elements
InsertAt(list, i, item) == SubSeq(list, 1, i) \o <<item>> \o SubSeq(list, i + 1, Len(list))

\* C13: with testCount 10 and screenCount 1, the score of a bug list with
\* one more critical bug, put at any place of the list, is never below the
\* score of the list itself.
C13_MonotoneInCriticalBugs ==
    (called /\ testCountArg = 10 /\ screenCountArg = 1) =>
        \A i \in 0..Len(openBugsArg) :
            calculateRiskScore(InsertAt(openBugsArg, i, Bug("critical")), 10, 1)
                >= listScore

\* a list already at the bug-count cap whose score still rises with one more
\* critical bug
C13_Witness ==
    /\ called
    /\ testCountArg = 10
    /\ screenCountArg = 1
    /\ Len(openBugsArg) >= 10
    /\ calculateRiskScore(Append(openBugsArg, Bug("critical")), 10, 1) = listScore + 1000

\* the answer every provider gives under the environment: the stored data
\* when it is up, nothing when it is down
StatedOutcome == IF net = "up" THEN "ok" ELSE "throw"

\* the list item of bucket b computed from the providers' answers alone
StatedItem(map, b) ==
    LET firstScreen == map[b].screens[1]
        open == RealGetBugReportsByStatus(StatedOutcome, firstScreen.product, "open",
                    firstScreen.section, firstScreen.feature).value
        closed == RealGetBugReportsByStatus(StatedOutcome, firstScreen.product,
                      "closed", firstScreen.section, firstScreen.feature).value
        stats == RealGetTestStats(StatedOutcome, firstScreen.product,
                     firstScreen.section, firstScreen.feature).value
    IN  FeatureRisk([featureMap |-> map, i |-> b, open |-> Settled(open),
                     closed |-> Settled(closed)], stats)

\* the list that depends on the screens and the answers only
StatedList(nodeList) ==
    LET map == groupByFeature(nodeList)
    IN  sortByRisk([b \in 1..Len(map) |-> StatedItem(map, b)], <<>>)

\* C14: when the providers' answers are fixed (all up, or all down inside
\* the adapters), a finished run stores the one list determined by the
\* screens and the answers, whichever bug fetch of each bucket settled first.
C14_OrderIndependent ==
    (/\ Len(runs) = 1
     /\ runs[1].pc = "done"
     /\ \/ net = "up"
        \/ net = "down" /\ bugService = "RealSupabaseService"
                        /\ testService = "RealAllureService")
        => featureRiskData = StatedList(nodes)

\* a finished run over two buckets whose bug fetches settled closed-first in
\* the first bucket and open-first in the second
C14_Witness ==
    /\ Len(runs) = 1
    /\ runs[1].pc = "done"
    /\ net = "up"
    /\ runs[1].firstSettled = <<"closed", "open">>
    /\ Len(featureRiskData) = 2
    /\ featureRiskData[1].closedBugs # featureRiskData[1].openBugs

\* C15: no effect run of useQualityMetrics writes metrics, error or loading
\* after its arguments were replaced or the component unmounted.
C15_StaleFetchDropped ==
    /\ ~staleWrite
    /\ \A k \in 1..Len(fetches) :
        /\ fetches[k].pc = "dropped" => Superseded(k)
        /\ (Superseded(k) /\ fetches[k].pc = "inflight") => ~fetches[k].mounted

\* the fetch for the old arguments settled after the arguments changed and
\* was dropped, and the state holds the metrics of the current arguments
C15_Witness ==
    /\ Len(fetches) = 2
    /\ fetches[1].pc = "dropped"
    /\ fetches[2].pc = "written"
    /\ hookPhase = "mounted"
    /\ metrics # <<>>
    /\ metrics[1].feature = hookProps.feature
    /\ ~hookLoading

\* the run is working on a bucket whose getTestStats call has been made
TestFetchIssued(run) == run.pc = "tests"

\* C16: in a run, as soon as one of the fetches of the current bucket has
\* completed, the open-bug, closed-bug and test-count fetches of that bucket
\* have all been issued.
C16_ThreeFetchesConcurrent ==
    \A r \in 1..Len(runs) :
        (/\ runs[r].pc \in {"bugs", "tests"}
         /\ runs[r].open.settled \/ runs[r].closed.settled)
            => TestFetchIssued(runs[r])

\* the score the item's own fields give
ScoreOfItem(item) == calculateRiskScore(item.openBugs, item.testCount, Len(item.screens))

\* every pushed or stored item carries the score of its own bugs, test
\* count and screens, and no item exists for a bucket still being fetched
ItemsScored ==
    /\ \A k \in 1..Len(featureRiskData) :
        featureRiskData[k].riskScore = ScoreOfItem(featureRiskData[k])
    /\ \A r \in 1..Len(runs) :
        /\ \A k \in 1..Len(runs[r].acc) :
            /\ runs[r].acc[k].riskScore = ScoreOfItem(runs[r].acc[k])
            /\ runs[r].acc[k].featureId = runs[r].featureMap[k].key
        /\ runs[r].pc \in {"bugs", "tests"} => Len(runs[r].acc) = runs[r].i - 1

\* an item is pushed only by the step that receives the test stats, when
\* both bug fetches have settled, and it carries their answers
PushedAfterFetches ==
    \A r \in 1..Len(runs) :
        Len(runs'[r].acc) > Len(runs[r].acc) =>
            /\ runs[r].pc = "tests"
            /\ runs[r].open.settled
            /\ runs[r].closed.settled
            /\ runs'[r].acc[Len(runs'[r].acc)].openBugs = runs[r].open.value
            /\ runs'[r].acc[Len(runs'[r].acc)].closedBugs = runs[r].closed.value

\* C17: a bucket's score is computed only after its open-bug, closed-bug and
\* test-count fetches have completed, and every bucket of the output has
\* riskScore = calculateRiskScore(its openBugs, its testCount, its number of
\* screens).
C17_ScoreAfterAllFetches == []ItemsScored /\ [][PushedAfterFetches]_vars

\* a stored bucket of two screens with open bugs and tests
C17_Witness ==
    /\ Len(runs) = 1
    /\ runs[1].pc = "done"
    /\ \E k \in 1..Len(featureRiskData) :
        /\ Len(featureRiskData[k].screens) = 2
        /\ Len(featureRiskData[k].openBugs) = 2
        /\ featureRiskData[k].testCount = 12
        /\ featureRiskData[k].riskScore = 1950

\* C18: when every pending provider call eventually resolves or rejects,
\* the run eventually ends, in the try block or in the catch block, and
\* loading is false from then on.
C18_RunTerminates ==
    <>[](/\ runs # <<>>
         /\ \A r \in 1..Len(runs) : RunEnded(runs[r])
         /\ ~loading)

\* a run of two buckets that ended in the catch block at the second one,
\* with loading false
C18_Witness ==
    /\ Len(runs) = 1
    /\ runs[1].pc = "failed"
    /\ runs[1].threw = 2
    /\ error # "null"
    /\ ~loading

\* the place of an await in loadDetailedData
PcRank(pc) ==
    CASE pc = "closed" -> 0 [] pc = "bugs" -> 1 [] pc = "docs" -> 2
      [] pc = "coverage" -> 3 [] pc = "stats" -> 4 [] pc = "cases" -> 5
      [] pc = "done" -> 6

\* the load is behind the await of the given place
Behind(pc) == PcRank(modalPc) > PcRank(pc)

\* the test provider is asked: screen mode, or a handed test count of 0
TestsFetched == ~isFeatureMode \/ featureData[1].testCount = 0

\* the fetches a load makes
IssuedKinds ==
    (IF isFeatureMode THEN {} ELSE {"bugs"}) \cup {"docs"}
        \cup (IF TestsFetched THEN {"coverage", "stats", "cases"} ELSE {})

\* what each fetch stores when it succeeds
StatedBugs ==
    RealGetBugReports("ok", commonData.product, commonData.section,
        commonData.feature).value
StatedDocs ==
    RealGetProductDocs("ok", commonData.product, commonData.section,
        commonData.feature).value
StatedCoverage ==
    RealGetTestCoverage("ok", "ok", commonData.product, commonData.section,
        commonData.feature).value
StatedStats ==
    RealGetTestStats("ok", commonData.product, commonData.section,
        commonData.feature).value
StatedCases ==
    RealGetTestCases("ok", commonData.product, commonData.section, commonData.feature)

\* C19: in loadDetailedData a fetch that failed has left only its own state
\* empty or null, every fetch behind it was still issued and its answer is
\* stored, and when the load has ended loading is false.
C19_FetchesFailIndependently ==
    isOpen =>
        /\ (~isFeatureMode /\ Behind("bugs")) =>
                bugs = IF "bugs" \in fetchFailed THEN <<>> ELSE StatedBugs
        /\ Behind("docs") =>
                docs = IF "docs" \in fetchFailed THEN <<>> ELSE StatedDocs
        /\ (TestsFetched /\ Behind("coverage")) =>
                testCoverage = IF "coverage" \in fetchFailed THEN NullCoverage
                               ELSE StatedCoverage
        /\ (TestsFetched /\ Behind("stats")) =>
                testStats = IF "stats" \in fetchFailed THEN NullStats ELSE StatedStats
        /\ (TestsFetched /\ Behind("cases")) =>
                testCases = IF "cases" \in fetchFailed THEN <<>> ELSE StatedCases
        /\ modalPc = "done" =>
                /\ ~modalLoading
                /\ fetchFailed \subseteq IssuedKinds
                /\ net = "down" => fetchFailed = IssuedKinds

\* a finished screen-mode load whose bug and test-stats fetches rejected,
\* with the documentation, coverage and test cases of the later fetches stored
C19_Witness ==
    /\ modalPc = "done"
    /\ ~isFeatureMode
    /\ bugService = "SupabaseService"
    /\ testService = "AllureService"
    /\ fetchFailed = {"bugs", "stats"}
    /\ bugs = <<>>
    /\ docs # <<>>
    /\ ~testCoverage.isNull
    /\ testStats.isNull
    /\ Len(testCases) = 12
    /\ ~modalLoading

C26_LoadingWhileInFlight ==
    (\E r \in 1..Len(runs) : ~RunEnded(runs[r])) => loading

\* C28: in the modal's risk calculation breakdown the three displayed
\* weighted sub-scores add up to the displayed total risk score.
C28_PartsAddUpToTotal ==
    called =>
        breakdown.bug + breakdown.coverage + breakdown.complexity = breakdown.total

\* C29: calculateRiskLevel(bugCount, testCount) returns the level getRiskLevel
\* gives the single-screen composite score of bugCount medium bugs and
\* testCount tests.
C29_SameLevelAsComposite ==
    called => qualityLevel.quality = qualityLevel.composite

\* C22: on the same stored bugs and the same arguments the real and the mock
\* getBugReportsByStatus return the same bugs, namely those of the requested
\* statusCategory whose product, and section and feature when given, are the
\* requested ones.
C22_RealAndMockAgree ==
    called =>
        /\ realAnswer = mockAnswer
        /\ \A r \in 1..Len(realAnswer) :
               /\ realAnswer[r].statusCategory = queryArg.statusCategory
               /\ realAnswer[r].product = queryArg.product
               /\ Truthy(queryArg.section) =>
                      realAnswer[r].section = queryArg.section[1]
               /\ Truthy(queryArg.feature) =>
                      realAnswer[r].feature = queryArg.feature[1]

\* C24: in feature mode the number of open bugs the modal displays is the
\* length of the openBugs list it was handed.
C24_DisplayedOpenCount ==
    (isOpen /\ isFeatureMode) =>
        Len(displayedOpenBugs) = Len(featureData[1].openBugs)

\* C25: whenever the panel shows a list of open and closed bugs, the lists
\* were fetched for the product, section and feature of the selected node.
C25_ShownBugsOfSelectedNode ==
    (/\ selectedNode # Undefined
     /\ showBugDetails
     /\ ~loadingBugs
     /\ panelOpenBugs \o panelClosedBugs # <<>>) =>
        /\ bugsFetchedFor # Undefined
        /\ bugsFetchedFor[1].product = selectedNode[1].product
        /\ bugsFetchedFor[1].section = selectedNode[1].section
        /\ bugsFetchedFor[1].feature = selectedNode[1].feature

\* C30: useBulkQualityMetrics eventually reports loading = false for every
\* list of features, the empty one included, when the fetch it started
\* settles and the component stays mounted.
C30_BulkLoadingEnds == <>(bulkPhase = "unmounted" \/ ~bulkLoading)

\* what calculateDynamicRiskLevels is said to return for a recomputed node:
\* the node with the counts of its own fetches and the level of their
\* single-screen score
StatedRecomputed(node, task) ==
    LET testCount == IF task.stats.isNull THEN 0 ELSE task.stats.total
    IN  [node EXCEPT !.qualityMetrics =
            Some([bugCount |-> Len(task.openBugs), testCount |-> testCount,
                  riskLevel |-> StatedLevel(StatedScore(task.openBugs, testCount, 1)),
                  lastUpdated |-> "now"])]

\* the answers the providers can give for a node's own product, section and
\* feature
OwnAnswers(node, task) ==
    /\ task.openBugs \in {BugQuery("open", node.feature), <<>>}
    /\ task.stats \in {RealGetTestStats("ok", node.product, node.section,
                                         node.feature).value, NullStats}

\* C21: in calculateDynamicRiskLevels a node whose provider call threw is
\* returned unchanged, and every other eligible node is recomputed from its
\* own fetch results with screenCount 1; the page stores exactly these nodes.
C21_ThrowKeepsOnlyThatNode ==
    \A i \in 1..Len(nodeTasks) :
        LET task == nodeTasks[i]
            node == flowJson.nodes[i]
        IN  /\ task.threw => (task.pc = "returned" /\ task.result = node)
            /\ (Eligible(node) /\ task.pc = "returned" /\ ~task.threw) =>
                   /\ OwnAnswers(node, task)
                   /\ task.result = StatedRecomputed(node, task)
            /\ ~Eligible(node) => task.result = node
            /\ pagePc = "loaded" => flowData[1].nodes[i] = task.result

\* the page is loaded, one node's provider call threw and kept its snapshot,
\* and another node carries a recomputed level that differs from its snapshot
C21_Witness ==
    /\ pagePc = "loaded"
    /\ \E i, j \in 1..Len(nodeTasks) :
        /\ nodeTasks[i].threw
        /\ flowData[1].nodes[i].qualityMetrics = JsonMetrics
        /\ ~nodeTasks[j].threw
        /\ Eligible(flowJson.nodes[j])
        /\ flowData[1].nodes[j].qualityMetrics[1].lastUpdated = "now"
        /\ flowData[1].nodes[j].qualityMetrics[1].riskLevel = "low"

\* the level the risk overview shows for the feature of a node, computed from
\* the providers' answers for the page's node data
OverviewLevel(node) ==
    LET map == groupByFeature(flowData[1].nodes)
        b == CHOOSE e \in 1..Len(map) : map[e].key = FeatureKey(node)
    IN  getRiskLevel(StatedItem(map, b).riskScore)

\* C23: for the same provider data the risk level the graph page attaches to
\* a screen node is the level the risk overview shows for the screen's
\* feature, whatever the number of screens of the feature.
C23_NodeLevelIsFeatureLevel ==
    (pagePc = "loaded" /\ net = "up") =>
        \A i \in 1..Len(flowJson.nodes) :
            Eligible(flowJson.nodes[i]) =>
                flowData[1].nodes[i].qualityMetrics[1].riskLevel
                    = OverviewLevel(flowData[1].nodes[i])

\* C27: after any sequence of filter changes the displayed nodes are the
\* nodes that pass the filters, the displayed edges are the edges between
\* them, and no displayed edge has an end that is not displayed.
C27_DisplayedMatchesFilters ==
    pagePc = "loaded" =>
        /\ rfNodes = FilterNodes(flowData[1].nodes, filters)
        /\ rfEdges = InitialEdges(flowData, filters)
        /\ \A e \in 1..Len(rfEdges) :
               /\ \E n \in 1..Len(rfNodes) : rfNodes[n].id = rfEdges[e].source
               /\ \E n \in 1..Len(rfNodes) : rfNodes[n].id = rfEdges[e].target

====
